---- MODULE Spec2Model ----
(***************************************************************************)
(* A model of the Bursa parser (src/src/parser/parser.ts): the fused       *)
(* lexer+parser that turns a .bursa source text into a Ledger plus         *)
(* diagnostics.  The source text is a TLA+ string; the parser state is the *)
(* Parser record of the code, one variable per field.  Every step of the   *)
(* model is one iteration of the dispatcher loop of parse(); calls counts   *)
(* the calls of parse() made so far.                                       *)
(*                                                                         *)
(* A function of the code that parses in stages is one operator per stage, *)
(* each stage handing its result to the next as an argument: a parser      *)
(* function f(p) that returns a value is an operator giving                *)
(* [p |-> the parser after it, val |-> the value].                         *)
(*                                                                         *)
(* Conventions: a nullable object or string of the code (currentAccount,   *)
(* currentPeriod, category, comment) is Null or Some(x); the nullable      *)
(* enumerations section and sign use the string "null" for null.           *)
(***************************************************************************)
EXTENDS Integers, Sequences, FiniteSets, TLC

VARIABLES source, pos, line, col, section, currentPeriod, currentAccount,
          data, errors, warnings, pc, tagLoopPos, calls

vars == <<source, pos, line, col, section, currentPeriod, currentAccount,
          data, errors, warnings, pc, tagLoopPos, calls>>

Null == <<>>
Some(x) == <<x>>

(***************************************************************************)
(* Character classes                                                       *)
(***************************************************************************)
Digits == {"0", "1", "2", "3", "4", "5", "6", "7", "8", "9"}

Letters ==
    {"a", "b", "c", "d", "e", "f", "g", "h", "i", "j", "k", "l", "m",
     "n", "o", "p", "q", "r", "s", "t", "u", "v", "w", "x", "y", "z",
     "A", "B", "C", "D", "E", "F", "G", "H", "I", "J", "K", "L", "M",
     "N", "O", "P", "Q", "R", "S", "T", "U", "V", "W", "X", "Y", "Z"}

\* /[a-zA-Z0-9_]/.test(ch)
isIdentChar(ch) == ch \in Letters \cup Digits \cup {"_"}

\* The currency symbol set of the code.  Its ninth member, the baht sign
\* U+0E3F, cannot be written in a TLA+ string literal; no source text of the
\* model holds it.
CurrencySymbols == {"$", "€", "£", "¥", "₹", "₽", "₩", "₪"}

\* "...".includes(ch): String.prototype.includes is true of the empty string,
\* which is what peek() returns at the end of input.

isCurrencySymbol(ch) == ch = "" \/ ch \in CurrencySymbols

(***************************************************************************)
(* Parser record and cursor machinery                                      *)
(***************************************************************************)
createLedger ==
    [meta |-> [commodities |-> {}, aliases |-> <<>>, untrackedPatterns |-> <<>>],
     budget |-> <<>>,
     ledger |-> <<>>]

\* tagLoopPos is not a field of the code: it records the cursor position at
\* the head of each iteration of the tag loop of the line being parsed.
createParser ==
    [pos |-> 0, line |-> 1, col |-> 1, section |-> "null",
     currentPeriod |-> Null, currentAccount |-> Null,
     data |-> createLedger, errors |-> <<>>, warnings |-> <<>>,
     tagLoopPos |-> <<>>]

\* The Parser object the handlers work on, read from the state.
Parser ==
    [pos |-> pos, line |-> line, col |-> col, section |-> section,
     currentPeriod |-> currentPeriod, currentAccount |-> currentAccount,
     data |-> data, errors |-> errors, warnings |-> warnings,
     tagLoopPos |-> <<>>]

\* source[i] ?? "" for a 0-based index i
charAt(i) == IF i >= 0 /\ i < Len(source) THEN SubSeq(source, i + 1, i + 1) ELSE ""

peek(p) == charAt(p.pos)

advance(p) ==
    [p EXCEPT !.line = IF peek(p) = "\n" THEN @ + 1 ELSE @,
              !.col = IF peek(p) = "\n" THEN 1 ELSE IF peek(p) # "" THEN @ + 1 ELSE @,
              !.pos = @ + 1]

atEnd(p) == p.pos >= Len(source)

RECURSIVE skipHorizontalWhitespace(_)
skipHorizontalWhitespace(p) ==
    IF ~atEnd(p) /\ peek(p) \in {" ", "\t"}
    THEN skipHorizontalWhitespace(advance(p))
    ELSE p

RECURSIVE skipToEOL(_)
skipToEOL(p) ==
    IF ~atEnd(p) /\ peek(p) # "\n" THEN skipToEOL(advance(p)) ELSE p

\* if (peek(p) === "\n") advance(p)
skipNewline(p) == IF peek(p) = "\n" THEN advance(p) ELSE p

\* Mutant: the newline that ends the line is left unread.
skipLine_keepNewline(p) == skipToEOL(p)

skipLine(p) == skipNewline(skipToEOL(p))

\* The position restore of skipBlankLines.
restorePosition(q, saved) ==
    [q EXCEPT !.pos = saved.pos, !.line = saved.line, !.col = saved.col]

RECURSIVE skipBlankLines(_)
blankLineStep(q, saved) ==
    IF peek(q) = "\n" THEN skipBlankLines(advance(q)) ELSE restorePosition(q, saved)

skipBlankLines(p) ==
    IF atEnd(p) THEN p ELSE blankLineStep(skipHorizontalWhitespace(p), p)

\* source.startsWith(expected, pos)
startsWith(expected, i) ==
    /\ i + Len(expected) <= Len(source)
    /\ (Len(expected) = 0 \/ SubSeq(source, i + 1, i + Len(expected)) = expected)

RECURSIVE advanceN(_, _)
advanceN(p, n) == IF n = 0 THEN p ELSE advanceN(advance(p), n - 1)

\* match(): [ok, p]
match(p, expected) ==
    IF startsWith(expected, p.pos)
    THEN [ok |-> TRUE, p |-> advanceN(p, Len(expected))]
    ELSE [ok |-> FALSE, p |-> p]

markStart(p) == [line |-> p.line, col |-> p.col]

\* Mutant: the span is built with its ends exchanged.
spanFrom_reversed(p, start) == [start |-> [line |-> p.line, col |-> p.col], end |-> start]

spanFrom(p, start) == [start |-> start, end |-> [line |-> p.line, col |-> p.col]]

\* Mutant: the diagnostic is filed as a warning (addWarning).
addError_asWarning(p, diagnostic) == [p EXCEPT !.warnings = Append(@, diagnostic)]

addError(p, diagnostic) == [p EXCEPT !.errors = Append(@, diagnostic)]

(***************************************************************************)
(* Diagnostic catalog (the constructors the parser uses)                   *)
(***************************************************************************)
createDiagnostic(code, message, severity, span) ==
    [code |-> code, message |-> message, severity |-> severity, span |-> span]

invalidToken(span, char) ==
    createDiagnostic("E001",
        "Invalid token or unexpected character: '" \o char \o "'", "error", span)

malformedAmount(span, text) ==
    createDiagnostic("E002",
        "Malformed amount (bad number format): '" \o text \o "'", "error", span)

invalidDateFormat(span, text) ==
    createDiagnostic("E003", "Invalid date format: '" \o text \o "'", "error", span)

contentBeforeSectionMarker(span) ==
    createDiagnostic("E011", "Content before section marker", "error", span)

(***************************************************************************)
(* Primitives: identifier, symbol, hierarchical name                       *)
(***************************************************************************)
RECURSIVE identifierLoop(_, _)
identifierLoop(p, result) ==
    IF ~atEnd(p) /\ isIdentChar(peek(p))
    THEN identifierLoop(advance(p), result \o peek(p))
    ELSE [p |-> p, val |-> result]

parseIdentifier(p) == identifierLoop(p, "")

parseSymbol(p) ==
    IF isCurrencySymbol(peek(p))
    THEN [p |-> advance(p), val |-> peek(p)]
    ELSE parseIdentifier(p)

RECURSIVE hierarchicalLoop(_, _)
hierarchicalSegment(id, result) == hierarchicalLoop(id.p, result \o ":" \o id.val)

hierarchicalLoop(p, result) ==
    IF peek(p) = ":" /\ isIdentChar(charAt(p.pos + 1))
    THEN hierarchicalSegment(parseIdentifier(advance(p)), result)
    ELSE [p |-> p, val |-> result]

hierarchicalFirst(id) == hierarchicalLoop(id.p, id.val)

parseHierarchicalName(p) == hierarchicalFirst(parseIdentifier(p))

(***************************************************************************)
(* Section marker                                                          *)
(***************************************************************************)
SectionNames == {"META", "BUDGET", "LEDGER"}

\* Mutant: a section marker keeps the current account.
sectionSelect_keepAccount(name, nameStart) ==
    IF name.val \in SectionNames
    THEN skipLine([name.p EXCEPT !.section = name.val,
                                 !.currentPeriod = Null])
    ELSE skipLine(addError(name.p,
             createDiagnostic("E001", "Unknown section '" \o name.val \o "'",
                              "error", spanFrom(name.p, nameStart))))

\* Mutant: an unknown section name leaves no section selected.
sectionSelect_unknownClears(name, nameStart) ==
    IF name.val \in SectionNames
    THEN skipLine([name.p EXCEPT !.section = name.val,
                                 !.currentPeriod = Null,
                                 !.currentAccount = Null])
    ELSE skipLine(addError([name.p EXCEPT !.section = "null"],
             createDiagnostic("E001", "Unknown section '" \o name.val \o "'",
                              "error", spanFrom(name.p, nameStart))))

sectionSelect(name, nameStart) ==
    IF name.val \in SectionNames
    THEN skipLine([name.p EXCEPT !.section = name.val,
                                 !.currentPeriod = Null,
                                 !.currentAccount = Null])
    ELSE skipLine(addError(name.p,
             createDiagnostic("E001", "Unknown section '" \o name.val \o "'",
                              "error", spanFrom(name.p, nameStart))))

sectionName(q) == sectionSelect(parseIdentifier(q), markStart(q))

sectionAfterMatch(p, m) ==
    IF ~m.ok
    THEN skipLine(addError(p,
             createDiagnostic("E001", "Expected '>>>'", "error",
                              spanFrom(p, markStart(p)))))
    ELSE sectionName(skipHorizontalWhitespace(m.p))

parseSectionMarker(p) == sectionAfterMatch(p, match(p, ">>>"))

(***************************************************************************)
(* META directives                                                         *)
(***************************************************************************)
\* Map.prototype.set
mapSet(m, k, v) == [x \in DOMAIN m \cup {k} |-> IF x = k THEN v ELSE m[x]]

commodityDeclare(commodity, start) ==
    IF commodity.val # ""
    THEN [commodity.p EXCEPT !.data.meta.commodities = @ \cup {commodity.val}]
    ELSE addError(commodity.p,
             createDiagnostic("E001", "Expected commodity name", "error",
                              spanFrom(commodity.p, start)))

metaCommodity(p, start) == skipLine(commodityDeclare(parseIdentifier(p), start))

\* Rewrites the commodity `from` of an entry's amount to `to`.
recommodify(e, from, to) ==
    IF e.amount.commodity = from THEN [e EXCEPT !.amount.commodity = to] ELSE e

\* Mutant: declaring an alias also rewrites the amounts already appended that
\* were written with the symbol.
aliasDeclare_retroactive(commodity, symbol) ==
    IF symbol # "" /\ commodity.val # ""
    THEN [commodity.p EXCEPT
             !.data.meta.aliases = mapSet(@, symbol, commodity.val),
             !.data.meta.commodities = @ \cup {commodity.val},
             !.data.ledger = [i \in 1..Len(@) |-> recommodify(@[i], symbol, commodity.val)],
             !.data.budget = [i \in 1..Len(@) |-> recommodify(@[i], symbol, commodity.val)]]
    ELSE commodity.p

\* Mutant: the alias is stored without declaring its commodity.
aliasDeclare_aliasOnly(commodity, symbol) ==
    IF symbol # "" /\ commodity.val # ""
    THEN [commodity.p EXCEPT
             !.data.meta.aliases = mapSet(@, symbol, commodity.val)]
    ELSE commodity.p

aliasDeclare(commodity, symbol) ==
    IF symbol # "" /\ commodity.val # ""
    THEN [commodity.p EXCEPT
             !.data.meta.aliases = mapSet(@, symbol, commodity.val),
             !.data.meta.commodities = @ \cup {commodity.val}]
    ELSE commodity.p

aliasAfterEquals(q, m, symbol) ==
    IF ~m.ok
    THEN skipLine(addError(q,
             createDiagnostic("E001", "Expected '='", "error",
                              spanFrom(q, markStart(q)))))
    ELSE skipLine(aliasDeclare(parseIdentifier(skipHorizontalWhitespace(m.p)), symbol))

aliasEquals(q, symbol) == aliasAfterEquals(q, match(q, "="), symbol)

aliasSymbol(symbol) == aliasEquals(skipHorizontalWhitespace(symbol.p), symbol.val)

metaAlias(p) == aliasSymbol(parseSymbol(p))

untrackedStar(q, name) ==
    IF peek(q) = "*"
    THEN [p |-> advance(q), val |-> "@" \o name \o ":*"]
    ELSE [p |-> q, val |-> "@" \o name]

untrackedSuffix(name) ==
    IF peek(name.p) = ":"
    THEN untrackedStar(advance(name.p), name.val)
    ELSE [p |-> name.p, val |-> "@" \o name.val]

untrackedPattern(p) ==
    IF peek(p) = "*"
    THEN [p |-> advance(p), val |-> "@*"]
    ELSE untrackedSuffix(parseHierarchicalName(p))

untrackedPush(pattern) ==
    [pattern.p EXCEPT !.data.meta.untrackedPatterns = Append(@, pattern.val)]

untrackedAfterAt(p, m) ==
    IF ~m.ok
    THEN skipLine(addError(p,
             createDiagnostic("E001", "Expected '@'", "error",
                              spanFrom(p, markStart(p)))))
    ELSE skipLine(untrackedPush(untrackedPattern(m.p)))

metaUntracked(p) == untrackedAfterAt(p, match(p, "@"))

metaDispatch(keyword, q, start) ==
    CASE keyword = "commodity" -> metaCommodity(q, start)
      [] keyword = "alias" -> metaAlias(q)
      [] keyword = "untracked" -> metaUntracked(q)
      [] OTHER ->
            skipLine(addError(q,
                createDiagnostic("E001", "Unknown directive '" \o keyword \o "'",
                                 "error", spanFrom(q, start))))

metaAfterColon(keyword, m, start) ==
    IF ~m.ok
    THEN skipLine(addError(keyword.p,
             createDiagnostic("E001", "Expected ':'", "error",
                              spanFrom(keyword.p, start))))
    ELSE metaDispatch(keyword.val, skipHorizontalWhitespace(m.p), start)

metaKeyword(keyword, start) == metaAfterColon(keyword, match(keyword.p, ":"), start)

parseMetaDirective(p) == metaKeyword(parseIdentifier(p), markStart(p))

(***************************************************************************)
(* Period, date, references                                                *)
(***************************************************************************)
\* `diag` names the diagnostic of the caller: invalidToken (parsePeriod) or
\* invalidDateFormat (parseDate).
shapeError(diag, span, text) ==
    IF diag = "invalidDateFormat" THEN invalidDateFormat(span, text)
    ELSE invalidToken(span, text)

\* for (i < n): a digit is consumed, anything else ends the token with the
\* diagnostic.  [ok, p, val]; on failure p carries the diagnostic.
RECURSIVE digitRun(_, _, _, _, _)
digitRun(p, result, n, start, diag) ==
    IF n = 0 THEN [ok |-> TRUE, p |-> p, val |-> result]
    ELSE IF peek(p) \in Digits
         THEN digitRun(advance(p), result \o peek(p), n - 1, start, diag)
         ELSE [ok |-> FALSE, val |-> result,
               p |-> addError(p, shapeError(diag, spanFrom(p, start), result \o peek(p)))]

\* if (peek(p) !== "-") fail; result += advance(p)
dashStep(r, start, diag) ==
    IF ~r.ok THEN r
    ELSE IF peek(r.p) # "-"
         THEN [ok |-> FALSE, val |-> r.val,
               p |-> addError(r.p, shapeError(diag, spanFrom(r.p, start), r.val))]
         ELSE [ok |-> TRUE, val |-> r.val \o "-", p |-> advance(r.p)]

digitStep(r, n, start, diag) ==
    IF ~r.ok THEN r ELSE digitRun(r.p, r.val, n, start, diag)

\* return result / return null
shapeResult(r) == [p |-> r.p, val |-> IF r.ok THEN Some(r.val) ELSE Null]

yearMonth(p, start, diag) ==
    digitStep(dashStep(digitRun(p, "", 4, start, diag), start, diag), 2, start, diag)

\* parsePeriod: val is Some(period) or Null
parsePeriod(p) == shapeResult(yearMonth(p, markStart(p), "invalidToken"))

\* parseDate: val is Some(date) or Null
parseDate(p) ==
    shapeResult(
        digitStep(dashStep(yearMonth(p, markStart(p), "invalidDateFormat"),
                           markStart(p), "invalidDateFormat"),
                  2, markStart(p), "invalidDateFormat"))

\* name.split(":")
RECURSIVE splitColon(_, _, _)
splitColon(s, i, seg) ==
    IF i > Len(s) THEN <<seg>>
    ELSE IF SubSeq(s, i, i) = ":"
         THEN <<seg>> \o splitColon(s, i + 1, "")
         ELSE splitColon(s, i + 1, seg \o SubSeq(s, i, i))

split(name) == splitColon(name, 1, "")

\* parseAccountRef, parseCategoryRef and parseTagRef differ in the sigil only.
refName(name, sigil, start) ==
    IF name.val = ""
    THEN [p |-> addError(name.p, invalidToken(spanFrom(name.p, start), sigil)),
          val |-> Null]
    ELSE [p |-> name.p,
          val |-> Some([path |-> split(name.val),
                        raw |-> sigil \o name.val,
                        span |-> spanFrom(name.p, start)])]

refAfterSigil(p, m, sigil) ==
    IF ~m.ok THEN [p |-> p, val |-> Null]
    ELSE refName(parseHierarchicalName(m.p), sigil, markStart(p))

parseRef(p, sigil) == refAfterSigil(p, match(p, sigil), sigil)

parseCategoryRef(p) == parseRef(p, "&")

parseAccountRef(p) == parseRef(p, "@")

parseTagRef(p) == parseRef(p, "#")

(***************************************************************************)
(* Amount                                                                  *)
(***************************************************************************)

\* Mutant: the alias map is not consulted.
resolveCommodity_asWritten(p, symbol) == symbol

\* aliases.get(symbol) ?? symbol
resolveCommodity(p, symbol) ==
    IF symbol \in DOMAIN p.data.meta.aliases
    THEN p.data.meta.aliases[symbol]
    ELSE symbol

digitValue(ch) ==
    CASE ch = "0" -> 0 [] ch = "1" -> 1 [] ch = "2" -> 2 [] ch = "3" -> 3
      [] ch = "4" -> 4 [] ch = "5" -> 5 [] ch = "6" -> 6 [] ch = "7" -> 7
      [] ch = "8" -> 8 [] ch = "9" -> 9

RECURSIVE pow10(_)
pow10(n) == IF n = 0 THEN 1 ELSE 10 * pow10(n - 1)

RECURSIVE digitsValue(_, _)
digitsValue(s, acc) ==
    IF s = "" THEN acc
    ELSE digitsValue(SubSeq(s, 2, Len(s)), 10 * acc + digitValue(SubSeq(s, 1, 1)))

RECURSIVE dotIndex(_, _)
dotIndex(s, i) ==
    IF i > Len(s) THEN 0
    ELSE IF SubSeq(s, i, i) = "." THEN i ELSE dotIndex(s, i + 1)

RECURSIVE stripTrailingZeros(_)
stripTrailingZeros(s) ==
    IF s # "" /\ SubSeq(s, Len(s), Len(s)) = "0"
    THEN stripTrailingZeros(SubSeq(s, 1, Len(s) - 1))
    ELSE s

decimal(int, frac) == [num |-> digitsValue(int \o frac, 0), den |-> pow10(Len(frac))]

decimalAt(numStr, d) ==
    IF d = 0 THEN decimal(numStr, "")
    ELSE decimal(SubSeq(numStr, 1, d - 1),
                 stripTrailingZeros(SubSeq(numStr, d + 1, Len(numStr))))

\* parseFloat on a run of digits with at most one '.', not empty and not ".":
\* the decimal number written, as the fraction num / den with den the least
\* power of ten (the inputs of the model are exact in a 64-bit float).
parseFloat(numStr) == decimalAt(numStr, dotIndex(numStr, 1))

RECURSIVE numberLoop(_, _, _)
numberLoop(p, numStr, seenDot) ==
    IF atEnd(p) THEN [p |-> p, val |-> numStr]
    ELSE IF peek(p) \in Digits THEN numberLoop(advance(p), numStr \o peek(p), seenDot)
    ELSE IF peek(p) = "." /\ ~seenDot THEN numberLoop(advance(p), numStr \o peek(p), TRUE)
    ELSE [p |-> p, val |-> numStr]

amountSign(p) ==
    IF peek(p) = "+" THEN [p |-> advance(p), val |-> "+"]
    ELSE IF peek(p) = "-" THEN [p |-> advance(p), val |-> "-"]
    ELSE [p |-> p, val |-> "null"]

\* The commodity before the number: "" stands for the code's null (and for the
\* empty string, which is as falsy).
leadingCommodity(p) ==
    IF isCurrencySymbol(peek(p))
    THEN [p |-> advance(p), val |-> resolveCommodity(p, peek(p))]
    ELSE [p |-> p, val |-> ""]

\* Mutant: the identifier after the number is taken as written.
trailingIdent_raw(ident) == [p |-> ident.p, val |-> ident.val]

trailingIdent(ident) == [p |-> ident.p, val |-> resolveCommodity(ident.p, ident.val)]

trailingAt(q) ==
    IF isCurrencySymbol(peek(q))
    THEN [p |-> advance(q), val |-> resolveCommodity(q, peek(q))]
    ELSE IF peek(q) \in Letters
         THEN trailingIdent(parseIdentifier(q))
         ELSE [p |-> q, val |-> ""]

trailingCommodity(p) == trailingAt(skipHorizontalWhitespace(p))

amountResult(trail, numStr, sign, start) ==
    IF trail.val = ""
    THEN [p |-> addError(trail.p, malformedAmount(spanFrom(trail.p, start), numStr)),
          val |-> Null]
    ELSE [p |-> trail.p,
          val |-> Some([sign |-> sign,
                        value |-> parseFloat(numStr),
                        commodity |-> trail.val,
                        span |-> spanFrom(trail.p, start)])]

amountCommodity(num, lead, sign, start) ==
    IF num.val = "" \/ num.val = "."
    THEN [p |-> num.p, val |-> Null]
    ELSE amountResult(IF lead = "" THEN trailingCommodity(num.p)
                      ELSE [p |-> num.p, val |-> lead],
                      num.val, sign, start)

amountNumber(lead, sign, start) ==
    amountCommodity(numberLoop(lead.p, "", FALSE), lead.val, sign, start)

amountLead(sign, start) == amountNumber(leadingCommodity(sign.p), sign.val, start)

\* parseAmount: val is Some(amount) or Null
parseAmount(p) == amountLead(amountSign(p), markStart(p))

(***************************************************************************)
(* BUDGET lines                                                            *)
(***************************************************************************)
budgetPush(amount, category, start) ==
    IF amount.val = Null
    THEN skipLine(addError(amount.p,
             malformedAmount(spanFrom(amount.p, markStart(amount.p)), "")))
    ELSE skipLine([amount.p EXCEPT !.data.budget =
             Append(@, [period |-> amount.p.currentPeriod[1],
                        category |-> category,
                        amount |-> amount.val[1],
                        span |-> spanFrom(amount.p, start)])])

budgetAmount(categoryRef, start) ==
    IF categoryRef.val = Null
    THEN skipLine(categoryRef.p)
    ELSE budgetPush(parseAmount(skipHorizontalWhitespace(categoryRef.p)),
                    categoryRef.val[1], start)

budgetEntry(p, start) == budgetAmount(parseCategoryRef(p), start)

budgetPeriod(period) ==
    skipLine(IF period.val # Null
             THEN [period.p EXCEPT !.currentPeriod = period.val]
             ELSE period.p)

parseBudgetLine(p) ==
    IF peek(p) \in Digits
    THEN budgetPeriod(parsePeriod(p))
    ELSE IF peek(p) = "&"
         THEN IF p.currentPeriod = Null
              THEN skipLine(addError(p, invalidToken(spanFrom(p, markStart(p)), peek(p))))
              ELSE budgetEntry(p, markStart(p))
         ELSE skipLine(addError(p, invalidToken(spanFrom(p, markStart(p)), peek(p))))

(***************************************************************************)
(* Target, comment, LEDGER lines                                           *)
(***************************************************************************)
accountTarget(ref, category) ==
    [p |-> category.p,
     val |-> Some([kind |-> "account", ref |-> ref, category |-> category.val])]

targetCategory(ref, q) ==
    accountTarget(ref, IF peek(q) = "&" THEN parseCategoryRef(q)
                       ELSE [p |-> q, val |-> Null])

targetAccount(ref) ==
    IF ref.val = Null THEN [p |-> ref.p, val |-> Null]
    ELSE targetCategory(ref.val[1], skipHorizontalWhitespace(ref.p))

categoryTarget(ref) ==
    [p |-> ref.p,
     val |-> IF ref.val # Null THEN Some([kind |-> "category", ref |-> ref.val[1]])
             ELSE Null]

swapTarget(amount) ==
    [p |-> amount.p,
     val |-> IF amount.val # Null THEN Some([kind |-> "swap", amount |-> amount.val[1]])
             ELSE Null]

\* parseTarget: val is Some(target) or Null
parseTarget(p) ==
    IF peek(p) = "&" THEN categoryTarget(parseCategoryRef(p))
    ELSE IF peek(p) = "@" THEN targetAccount(parseAccountRef(p))
    ELSE IF peek(p) = "+" \/ peek(p) = "-" \/ peek(p) \in Digits
            \/ isCurrencySymbol(peek(p))
         THEN swapTarget(parseAmount(p))
         ELSE [p |-> p, val |-> Null]

\* The whitespace the inputs of the model can hold.
isWhitespace(ch) == ch \in {" ", "\t", "\n", "\r"}

\* String.prototype.trim
RECURSIVE trim(_)
trim(s) ==
    IF s = "" THEN s
    ELSE IF isWhitespace(SubSeq(s, 1, 1)) THEN trim(SubSeq(s, 2, Len(s)))
    ELSE IF isWhitespace(SubSeq(s, Len(s), Len(s))) THEN trim(SubSeq(s, 1, Len(s) - 1))
    ELSE s

RECURSIVE commentLoop(_, _)
commentLoop(p, result) ==
    IF ~atEnd(p) /\ peek(p) # "\n"
    THEN commentLoop(advance(p), result \o peek(p))
    ELSE [p |-> p, val |-> result]

\* result.trim() || null
commentValue(p, text) == [p |-> p, val |-> IF text = "" THEN Null ELSE Some(text)]

commentText(r) == commentValue(r.p, trim(r.val))

\* parseComment: val is Some(text) or Null
parseComment(p) ==
    IF peek(p) # ";" THEN [p |-> p, val |-> Null]
    ELSE commentText(commentLoop(skipHorizontalWhitespace(advance(p)), ""))

\* while (true) { skipHorizontalWhitespace; '#' ? parseTagRef : break }
RECURSIVE tagLoop(_, _)
tagPush(tag, tags) ==
    tagLoop(tag.p, IF tag.val # Null THEN Append(tags, tag.val[1]) ELSE tags)

tagStep(q, tags) ==
    IF peek(q) = "#" THEN tagPush(parseTagRef(q), tags) ELSE [p |-> q, val |-> tags]

tagLoop(p, tags) ==
    tagStep(skipHorizontalWhitespace([p EXCEPT !.tagLoopPos = Append(@, p.pos)]), tags)

\* e: what the line has yielded so far (start, unverified, date, amount, ...)
assertionPush(comment, e) ==
    skipLine([comment.p EXCEPT !.data.ledger =
        Append(@, [kind |-> "assertion",
                   date |-> e.date,
                   account |-> comment.p.currentAccount[1],
                   unverified |-> e.unverified,
                   amount |-> e.amount,
                   comment |-> comment.val,
                   span |-> spanFrom(comment.p, e.start)])])

assertionAmount(amount, e) ==
    IF amount.val = Null
    THEN skipLine(addError(amount.p,
             malformedAmount(spanFrom(amount.p, markStart(amount.p)), "")))
    ELSE assertionPush(parseComment(skipHorizontalWhitespace(amount.p)),
                       [start |-> e.start, unverified |-> e.unverified,
                        date |-> e.date, amount |-> amount.val[1]])

ledgerAssertion(p, e) ==
    assertionAmount(parseAmount(skipHorizontalWhitespace(advance(advance(p)))), e)

\* Mutant: the ledger is assigned the new entry instead of being appended to.
transactionPush_assign(comment, e) ==
    skipLine([comment.p EXCEPT !.data.ledger =
        <<[kind |-> "transaction",
           date |-> e.date,
           account |-> comment.p.currentAccount[1],
           unverified |-> e.unverified,
           amount |-> e.amount,
           target |-> e.target,
           tags |-> e.tags,
           comment |-> comment.val,
           span |-> spanFrom(comment.p, e.start)]>>])

\* Mutant: the span of the transaction is taken after the line is skipped.
transactionPush_spanAfterLine(comment, e) ==
    skipLine([comment.p EXCEPT !.data.ledger =
        Append(@, [kind |-> "transaction",
                   date |-> e.date,
                   account |-> comment.p.currentAccount[1],
                   unverified |-> e.unverified,
                   amount |-> e.amount,
                   target |-> e.target,
                   tags |-> e.tags,
                   comment |-> comment.val,
                   span |-> spanFrom(skipLine(comment.p), e.start)])])

transactionPush(comment, e) ==
    skipLine([comment.p EXCEPT !.data.ledger =
        Append(@, [kind |-> "transaction",
                   date |-> e.date,
                   account |-> comment.p.currentAccount[1],
                   unverified |-> e.unverified,
                   amount |-> e.amount,
                   target |-> e.target,
                   tags |-> e.tags,
                   comment |-> comment.val,
                   span |-> spanFrom(comment.p, e.start)])])

transactionComment(tags, e) ==
    transactionPush(parseComment(skipHorizontalWhitespace(tags.p)),
                    [start |-> e.start, unverified |-> e.unverified, date |-> e.date,
                     amount |-> e.amount, target |-> e.target, tags |-> tags.val])

transactionTags(target, e) ==
    IF target.val = Null
    THEN skipLine(addError(target.p,
             invalidToken(spanFrom(target.p, markStart(target.p)), peek(target.p))))
    ELSE transactionComment(tagLoop(target.p, <<>>),
                            [start |-> e.start, unverified |-> e.unverified,
                             date |-> e.date, amount |-> e.amount,
                             target |-> target.val[1]])

transactionTarget(amount, e) ==
    IF amount.val = Null
    THEN skipLine(addError(amount.p,
             malformedAmount(spanFrom(amount.p, markStart(amount.p)), "")))
    ELSE transactionTags(parseTarget(skipHorizontalWhitespace(amount.p)),
                         [start |-> e.start, unverified |-> e.unverified,
                          date |-> e.date, amount |-> amount.val[1]])

ledgerTransaction(p, e) == transactionTarget(parseAmount(p), e)

\* Mutant: the second '=' is looked for one character too far.
entryKind_offByOne(p, e) ==
    IF peek(p) = "=" /\ charAt(p.pos + 2) = "="
    THEN ledgerAssertion(p, e)
    ELSE ledgerTransaction(p, e)

\* if (peek(p) === "=" && p.source[p.pos + 1] === "=")
entryKind(p, e) ==
    IF peek(p) = "=" /\ charAt(p.pos + 1) = "="
    THEN ledgerAssertion(p, e)
    ELSE ledgerTransaction(p, e)

entryDate(date, e) ==
    IF date.val = Null THEN skipLine(date.p)
    ELSE entryKind(skipHorizontalWhitespace(date.p),
                   [start |-> e.start, unverified |-> e.unverified,
                    date |-> date.val[1]])

ledgerEntry(p, start) ==
    entryDate(parseDate(IF peek(p) = "?" THEN skipHorizontalWhitespace(advance(p))
                        ELSE p),
              [start |-> start, unverified |-> (peek(p) = "?")])

\* Mutant: a header is stored only while no account is current.
ledgerAccount_keepFirst(accountRef) ==
    skipLine(IF accountRef.val # Null /\ accountRef.p.currentAccount = Null
             THEN [accountRef.p EXCEPT !.currentAccount = accountRef.val]
             ELSE accountRef.p)

\* Mutant: a header that fails to parse clears the current account.
ledgerAccount_clearOnFailure(accountRef) ==
    skipLine([accountRef.p EXCEPT !.currentAccount = accountRef.val])

ledgerAccount(accountRef) ==
    skipLine(IF accountRef.val # Null
             THEN [accountRef.p EXCEPT !.currentAccount = accountRef.val]
             ELSE accountRef.p)

\* Mutant: an entry line under no account is parsed under a nameless account.
parseLedgerLine_nameless(p) ==
    IF peek(p) = "@"
    THEN ledgerAccount(parseAccountRef(p))
    ELSE IF peek(p) = "?" \/ peek(p) \in Digits
         THEN IF p.currentAccount = Null
              THEN ledgerEntry([p EXCEPT !.currentAccount =
                                    Some([path |-> <<>>, raw |-> "@",
                                          span |-> spanFrom(p, markStart(p))])],
                               markStart(p))
              ELSE ledgerEntry(p, markStart(p))
         ELSE skipLine(addError(p, invalidToken(spanFrom(p, markStart(p)), peek(p))))

parseLedgerLine(p) ==
    IF peek(p) = "@"
    THEN ledgerAccount(parseAccountRef(p))
    ELSE IF peek(p) = "?" \/ peek(p) \in Digits
         THEN IF p.currentAccount = Null
              THEN skipLine(addError(p, invalidToken(spanFrom(p, markStart(p)), peek(p))))
              ELSE ledgerEntry(p, markStart(p))
         ELSE skipLine(addError(p, invalidToken(spanFrom(p, markStart(p)), peek(p))))

(***************************************************************************)
(* parse(): the dispatcher loop                                            *)
(***************************************************************************)
\* else branch of the dispatcher: no section selected yet
\* Mutant: the branch reports the generic invalid-token diagnostic.
contentBeforeError_invalidToken(q, start) == addError(q, invalidToken(spanFrom(q, start), ""))

contentBeforeError(q, start) == addError(q, contentBeforeSectionMarker(spanFrom(q, start)))

\* Mutant: the branch reports the line and forgets to skip it.
contentBeforeSection_noSkip(p) == contentBeforeError(p, markStart(p))

contentBeforeSection(p) == contentBeforeError(skipLine(p), markStart(p))

\* Mutant: the dispatcher does not skip the indentation of the line.
lineHead_keepIndent(p) == skipBlankLines(p)

\* The parser at the dispatch point of an iteration: skipBlankLines (the loop
\* breaks when that reaches the end), then skipHorizontalWhitespace.
lineHead(p) == skipHorizontalWhitespace(skipBlankLines(p))

\* The branch an iteration takes at line head h.
\* Mutant: a comment line is handed to the line parser of the section.
dispatch_noComment(h) ==
    IF peek(h) = ">" THEN "marker"
    ELSE IF h.section = "META" THEN "meta"
    ELSE IF h.section = "BUDGET" THEN "budget"
    ELSE IF h.section = "LEDGER" THEN "ledger"
    ELSE "none"

dispatch(h) ==
    IF peek(h) = ";" THEN "comment"
    ELSE IF peek(h) = ">" THEN "marker"
    ELSE IF h.section = "META" THEN "meta"
    ELSE IF h.section = "BUDGET" THEN "budget"
    ELSE IF h.section = "LEDGER" THEN "ledger"
    ELSE "none"

\* The Parser fields written back to the state.
Commit(q) ==
    /\ pos' = q.pos
    /\ line' = q.line
    /\ col' = q.col
    /\ section' = q.section
    /\ currentPeriod' = q.currentPeriod
    /\ currentAccount' = q.currentAccount
    /\ data' = q.data
    /\ errors' = q.errors
    /\ warnings' = q.warnings
    /\ tagLoopPos' = q.tagLoopPos
    /\ UNCHANGED <<source, calls>>

\* An iteration of while (!atEnd(p)) that gets past the break and takes branch b.
Iteration(b) ==
    /\ pc = "loop"
    /\ ~atEnd(Parser)
    /\ ~atEnd(skipBlankLines(Parser))
    /\ dispatch(lineHead(Parser)) = b
    /\ pc' = "loop"

BlankTail ==
    /\ pc = "loop"
    /\ ~atEnd(Parser)
    /\ atEnd(skipBlankLines(Parser))
    /\ Commit(skipBlankLines(Parser))
    /\ pc' = "done"

CommentLine == Iteration("comment") /\ Commit(skipLine(lineHead(Parser)))

SectionMarkerLine == Iteration("marker") /\ Commit(parseSectionMarker(lineHead(Parser)))

MetaLine == Iteration("meta") /\ Commit(parseMetaDirective(lineHead(Parser)))

BudgetLine == Iteration("budget") /\ Commit(parseBudgetLine(lineHead(Parser)))

LedgerLine == Iteration("ledger") /\ Commit(parseLedgerLine(lineHead(Parser)))

ContentBeforeSection == Iteration("none") /\ Commit(contentBeforeSection(lineHead(Parser)))

\* The loop condition fails: parse returns {data, errors, warnings}.
Return ==
    /\ pc = "loop"
    /\ atEnd(Parser)
    /\ pc' = "done"
    /\ UNCHANGED <<source, pos, line, col, section, currentPeriod, currentAccount,
                   data, errors, warnings, tagLoopPos, calls>>

Next ==
    \/ BlankTail
    \/ CommentLine
    \/ SectionMarkerLine
    \/ MetaLine
    \/ BudgetLine
    \/ LedgerLine
    \/ ContentBeforeSection
    \/ Return

(***************************************************************************)
(* Inputs: a preamble followed by up to MaxLines lines of the catalog, the *)
(* last one with or without its newline.                                   *)
(***************************************************************************)
MaxLines == 2

Preambles ==
    {"",
     ">>> META\n",
     ">>> BUDGET\n2026-01\n",
     ">>> LEDGER\n@A\n",
     ">>> META\nalias: $ = USD\n>>> LEDGER\n@A\n",
     "foo\n>>> META\n"}

Lines ==
    {"  ", "; note", " \t; note",
     ">>> META", ">>> BUDGET", "  >>> LEDGER", ">>> FOO", ">> META",
     "commodity: USD", "untracked: @B:*",
     "2026-02", "  &Food 50 $",
     "@B",
     "  2026-01-02 -5 $ &Food #t #u:v ; c",
     "? 2026-01-03 == 7 USD",
     "2026-01-04 -5 $ @B &",
     "2026-01-05 -5 $ &Food # #t",
     "2026-1-20 -5 $ &X",
     "2026-01-06 -1 $ +2.50 AAPL",
     "foo"}

RECURSIVE joinLines(_, _)
joinLines(ls, lastNewline) ==
    IF Len(ls) = 0 THEN ""
    ELSE IF Len(ls) = 1 THEN ls[1] \o (IF lastNewline THEN "\n" ELSE "")
    ELSE ls[1] \o "\n" \o joinLines(Tail(ls), lastNewline)

Sources ==
    {pre \o joinLines(ls, nl) :
        pre \in Preambles,
        ls \in UNION {[1..n -> Lines] : n \in 0..MaxLines},
        nl \in BOOLEAN}

Init ==
    /\ source \in Sources
    /\ pos = createParser.pos
    /\ line = createParser.line
    /\ col = createParser.col
    /\ section = createParser.section
    /\ currentPeriod = createParser.currentPeriod
    /\ currentAccount = createParser.currentAccount
    /\ data = createParser.data
    /\ errors = createParser.errors
    /\ warnings = createParser.warnings
    /\ tagLoopPos = createParser.tagLoopPos
    /\ pc = "loop"
    /\ calls = 1

Spec == Init /\ [][Next]_vars

\* parse is synchronous: the loop always takes its next iteration.  This is
\* WF_vars(Next) with ENABLED <<Next>>_vars written out: a step is enabled
\* exactly while pc = "loop" (C1_LoopEnabled checks it), and every step that
\* changes vars is a step of Next.
FairSpec == Spec /\ ([]<>(pc # "loop") \/ []<><<TRUE>>_vars)

(***************************************************************************)
(* Inputs for the entry lines: a preamble followed by up to MaxEntryLines   *)
(* fragments (one line, or a few lines that switch section and come back), *)
(* the last one with or without its newline.                               *)
(***************************************************************************)
MaxEntryLines == 2

EntryPreambles ==
    {">>> LEDGER\n@A\n",
     "x\n; c\n>>> META\nalias: RM = MYR\n>>> BUDGET\n2026-01\n"}

EntryLines ==
    {"",
     "2026-01-02 -5 $ &Food",
     "? 2026-01-03 == 7 RM ; c",
     "2026-01-04 +5 $ @B &Food #t",
     "2026-01-05 -5 $ @B &",
     "2026-01-06 -$1 +2.50 AAPL",
     "2026-01-07 5 $ &Food",
     "2026-1-20 -5 $ &X",
     "2026-01-015 $ &X",
     "2026-01-08 ? -5 $ &Food",
     "2026-01-09 -5 $ &Food ?",
     "2026-01-10 == foo",
     "2026-01-11 -5 $ == 3 $",
     "2026-01-12 -5 RM @B",
     "2026-01-13 -5 $ x",
     "2026-01-14 -5 $",
     "2026-013",
     "2026-02-15",
     "&Food 50 $",
     "? &Food 50 $"}

EntrySources ==
    {pre \o joinLines(ls, nl) :
        pre \in EntryPreambles,
        ls \in UNION {[1..n -> EntryLines] : n \in 0..MaxEntryLines},
        nl \in BOOLEAN}

EntryInit ==
    /\ source \in EntrySources
    /\ pos = createParser.pos
    /\ line = createParser.line
    /\ col = createParser.col
    /\ section = createParser.section
    /\ currentPeriod = createParser.currentPeriod
    /\ currentAccount = createParser.currentAccount
    /\ data = createParser.data
    /\ errors = createParser.errors
    /\ warnings = createParser.warnings
    /\ tagLoopPos = createParser.tagLoopPos
    /\ pc = "loop"
    /\ calls = 1

EntrySpec == EntryInit /\ [][Next]_vars

(***************************************************************************)
(* Inputs for the aliases: a preamble followed by up to MaxAliasLines      *)
(* fragments, the last one with or without its newline.                    *)
(***************************************************************************)
MaxAliasLines == 2

AliasPreambles ==
    {">>> LEDGER\n@A\n",
     ">>> META\nalias: $ = USD\nalias: RM = MYR\n; c\n>>> LEDGER\n@A\n",
     ">>> BUDGET\n2026-01\n",
     "x\n>>> META\n"}

AliasLines ==
    {"",
     "2026-01-02 -5 $ &Food",
     "? 2026-01-03 == 7 RM ; c",
     "2026-01-06 -$1 +2.50 AAPL",
     "&Food 50 $",
     "commodity: JPY",
     "alias: = USD",
     "alias: RM = SGD",
     ">>> META\nalias: $ = EUR\n>>> LEDGER\n@A\n2026-01-15 -2 $ &Food",
     "alias: $ = SGD\n>>> BUDGET\n2026-03"}

AliasSources ==
    {pre \o joinLines(ls, nl) :
        pre \in AliasPreambles,
        ls \in UNION {[1..n -> AliasLines] : n \in 0..MaxAliasLines},
        nl \in BOOLEAN}

AliasInit ==
    /\ source \in AliasSources
    /\ pos = createParser.pos
    /\ line = createParser.line
    /\ col = createParser.col
    /\ section = createParser.section
    /\ currentPeriod = createParser.currentPeriod
    /\ currentAccount = createParser.currentAccount
    /\ data = createParser.data
    /\ errors = createParser.errors
    /\ warnings = createParser.warnings
    /\ tagLoopPos = createParser.tagLoopPos
    /\ pc = "loop"
    /\ calls = 1

AliasSpec == AliasInit /\ [][Next]_vars

(***************************************************************************)
(* The source text, read independently of the parser: positions are        *)
(* 0-based like pos, lines and columns 1-based.                            *)
(***************************************************************************)
IsLineStart(i) == i = 0 \/ charAt(i - 1) = "\n"

\* The first position at or after i that holds no space or tab.
RECURSIVE HwsEnd(_)
HwsEnd(i) == IF charAt(i) \in {" ", "\t"} THEN HwsEnd(i + 1) ELSE i

\* The first position at or after i that holds no space, tab or newline: the
\* first character of the next line that has content (Len(source) if none).
RECURSIVE FirstContent(_)
FirstContent(i) == IF charAt(i) \in {" ", "\t", "\n"} THEN FirstContent(i + 1) ELSE i

\* Only blank lines are left from position i on.
OnlyBlankFrom(i) == FirstContent(i) >= Len(source)

NewlinesBefore(i) == Cardinality({k \in 0..(i - 1) : charAt(k) = "\n"})

LineOf(i) == 1 + NewlinesBefore(i)

Last(seq) == seq[Len(seq)]

IsPrefix(s, t) == Len(s) <= Len(t) /\ SubSeq(t, 1, Len(s)) = s

\* The dispatcher is about to take an iteration.
AtLoopHead == pc = "loop" /\ pos < Len(source)

(***************************************************************************)
(* C1: parse terminates on every input: every iteration of the dispatcher  *)
(* loop strictly advances the cursor, every iteration of the tag loop of a *)
(* ledger line starts strictly after the one before, and the loop          *)
(* eventually ends and parse returns.                                      *)
(***************************************************************************)
C1_IterationAdvances == AtLoopHead => pos' > pos

C1_TagLoopAdvances ==
    \A i \in 1..(Len(tagLoopPos) - 1) : tagLoopPos[i] < tagLoopPos[i + 1]

\* In the loop some branch of parse() is always taken.
C1_LoopEnabled ==
    pc = "loop" =>
        \/ atEnd(Parser)
        \/ atEnd(skipBlankLines(Parser))
        \/ dispatch(lineHead(Parser)) \in
              {"comment", "marker", "meta", "budget", "ledger", "none"}

C1_ParseTerminates ==
    /\ [][C1_IterationAdvances]_vars
    /\ [](C1_TagLoopAdvances /\ C1_LoopEnabled)
    /\ <>(pc = "done")

\* parse has returned from an input with a malformed line and a transaction
\* whose tag loop ran three times.
C1_Witness ==
    /\ pc = "done"
    /\ Len(errors) > 0
    /\ Len(data.ledger) > 0
    /\ Len(tagLoopPos) >= 3

(***************************************************************************)
(* C2: no partial entries: a line that adds a diagnostic appends nothing   *)
(* to data.budget and data.ledger.                                         *)
(***************************************************************************)
C2_Step ==
    Len(errors') > Len(errors) =>
        data'.budget = data.budget /\ data'.ledger = data.ledger

C2_NoPartialEntries == [][C2_Step]_vars

(***************************************************************************)
(* C3: entries are append-only: a line leaves every entry already in       *)
(* data.budget and data.ledger in place and adds at most one entry in      *)
(* total, whether or not it emits diagnostics.                             *)
(***************************************************************************)
C3_Step ==
    /\ IsPrefix(data.budget, data'.budget)
    /\ IsPrefix(data.ledger, data'.ledger)
    /\ Len(data'.budget) + Len(data'.ledger) <= Len(data.budget) + Len(data.ledger) + 1

C3_AppendOnly == [][C3_Step]_vars

\* Two ledger entries, the second appended by a line that also emitted a
\* diagnostic after the first was in place.
C3_Witness ==
    /\ Len(data.ledger) = 2
    /\ Len(errors) > 0
    /\ Last(errors).span.start.line = data.ledger[2].span.start.line

(***************************************************************************)
(* Section markers, account headers and period headers as the text holds   *)
(* them.  j is the position of the start of a line.                        *)
(***************************************************************************)
\* '>>>', optional spaces and tabs, then exactly the identifier `name`
MarkerAt(i, name) ==
    /\ startsWith(">>>", i)
    /\ startsWith(name, HwsEnd(i + 3))
    /\ ~isIdentChar(charAt(HwsEnd(i + 3) + Len(name)))

ValidMarkerAt(i) == \E name \in SectionNames : MarkerAt(i, name)

MarkerName(i) == CHOOSE name \in SectionNames : MarkerAt(i, name)

Max(S) == CHOOSE x \in S : \A y \in S : y <= x

LineStartsBefore(i) == {j \in 0..(i - 1) : IsLineStart(j)}

\* The section in force on the line that starts at j: the name of the last
\* valid marker line before it.
MarkersBefore(j) == {m \in LineStartsBefore(j) : ValidMarkerAt(HwsEnd(m))}

SectionAt(j) ==
    IF MarkersBefore(j) = {} THEN "null" ELSE MarkerName(HwsEnd(Max(MarkersBefore(j))))

\* A LEDGER line that is an @Account header: '@' and an identifier character.
IsAccountHeader(j) ==
    /\ SectionAt(j) = "LEDGER"
    /\ charAt(HwsEnd(j)) = "@"
    /\ isIdentChar(charAt(HwsEnd(j) + 1))

\* The end of the run of non-whitespace characters that starts at i
RECURSIVE TokenEnd(_)
TokenEnd(i) == IF charAt(i) \in {" ", "\t", "\n", ""} THEN i ELSE TokenEnd(i + 1)

PeriodShapeAt(d) ==
    /\ \A k \in {0, 1, 2, 3, 5, 6} : charAt(d + k) \in Digits
    /\ charAt(d + 4) = "-"

\* The token at d is exactly DDDD-DD.
IsPeriodToken(d) == PeriodShapeAt(d) /\ TokenEnd(d) = d + 7

\* A BUDGET line that is a period header: its token is DDDD-DD.
IsPeriodHeader(j) == IsPeriodToken(HwsEnd(j)) /\ SectionAt(j) = "BUDGET"

\* The start of line number n.
LineStart(n) == CHOOSE j \in {k \in 0..Len(source) : IsLineStart(k)} : LineOf(j) = n

AccountHeadersBefore(j) == {h \in LineStartsBefore(j) : IsAccountHeader(h)}

PeriodHeadersBefore(j) == {h \in LineStartsBefore(j) : IsPeriodHeader(h)}

\* The text of length n at position i
TextAt(i, n) == IF i + n <= Len(source) THEN SubSeq(source, i + 1, i + n) ELSE ""

(***************************************************************************)
(* C4: every entry of data.ledger carries the AccountRef of the most       *)
(* recent @Account header line of the LEDGER section before the entry's    *)
(* line: the ref starts where that header starts and is its text.          *)
(***************************************************************************)
C4_StampedBy(e, h) ==
    /\ e.account.span.start = [line |-> LineOf(h), col |-> HwsEnd(h) - h + 1]
    /\ e.account.raw = TextAt(HwsEnd(h), Len(e.account.raw))
    /\ Len(e.account.raw) > 1

C4_AccountIsLatestHeader ==
    \A i \in 1..Len(data.ledger) :
        /\ AccountHeadersBefore(LineStart(data.ledger[i].span.start.line)) # {}
        /\ C4_StampedBy(data.ledger[i],
               Max(AccountHeadersBefore(LineStart(data.ledger[i].span.start.line))))

\* An entry stamped @B although the header @A stands earlier in the section.
C4_Witness ==
    /\ Len(data.ledger) > 0
    /\ Last(data.ledger).account.raw = "@B"
    /\ Cardinality(AccountHeadersBefore(
           LineStart(Last(data.ledger).span.start.line))) >= 2

(***************************************************************************)
(* C5: every entry of data.budget has the period of the most recent period *)
(* header line of the BUDGET section before the entry's line (a BUDGET     *)
(* line whose token is YYYY-MM).                                           *)
(***************************************************************************)
C5_PeriodIsLatestHeader ==
    \A i \in 1..Len(data.budget) :
        /\ PeriodHeadersBefore(LineStart(data.budget[i].span.start.line)) # {}
        /\ data.budget[i].period =
               TextAt(HwsEnd(Max(PeriodHeadersBefore(
                          LineStart(data.budget[i].span.start.line)))), 7)

(***************************************************************************)
(* C6: a line '>>> NAME' with NAME one of META, BUDGET, LEDGER is          *)
(* recognized in every section state: it sets section to NAME and resets   *)
(* currentPeriod and currentAccount, also when NAME is the current section.*)
(***************************************************************************)
C6_Step ==
    \A name \in SectionNames :
        AtLoopHead /\ MarkerAt(FirstContent(pos), name) =>
            /\ section' = name
            /\ currentPeriod' = Null
            /\ currentAccount' = Null
            /\ errors' = errors
            /\ data' = data

C6_MarkerSelectsSection == [][C6_Step]_vars

\* A LEDGER marker met in the LEDGER section after an account block with an
\* entry: the account is reset.
C6_Witness ==
    /\ section = "LEDGER"
    /\ currentAccount = Null
    /\ Len(data.ledger) > 0
    /\ errors = <<>>
    /\ pos > 0
    /\ MarkerAt(HwsEnd(Max(LineStartsBefore(pos))), "LEDGER")

(***************************************************************************)
(* C7: a line that starts with '>' and is no valid section marker emits    *)
(* one E001 and leaves section, currentAccount, currentPeriod and data     *)
(* unchanged.                                                              *)
(***************************************************************************)
C7_Step ==
    AtLoopHead /\ charAt(FirstContent(pos)) = ">" /\ ~ValidMarkerAt(FirstContent(pos)) =>
        /\ Len(errors') = Len(errors) + 1
        /\ IsPrefix(errors, errors')
        /\ Last(errors').code = "E001"
        /\ UNCHANGED <<section, currentAccount, currentPeriod, data>>

C7_BadMarkerKeepsContext == [][C7_Step]_vars

\* '>>> FOO' under @A, then an entry line parsed in the same account block.
C7_Witness ==
    /\ Len(errors) = 1
    /\ errors[1].message = "Unknown section 'FOO'"
    /\ Len(data.ledger) = 1
    /\ data.ledger[1].span.start.line > errors[1].span.start.line
    /\ data.ledger[1].account.raw = "@A"

(***************************************************************************)
(* C8: while no section is selected, a line whose first non-whitespace     *)
(* character is neither ';' nor '>' emits exactly one E011 whose span      *)
(* starts on that line and changes nothing else; the parser goes on, so    *)
(* later markers and their lines are parsed.                               *)
(***************************************************************************)
C8_Step ==
    /\ AtLoopHead
    /\ section = "null"
    /\ FirstContent(pos) < Len(source)
    /\ charAt(FirstContent(pos)) \notin {";", ">"}
    =>
    /\ Len(errors') = Len(errors) + 1
    /\ IsPrefix(errors, errors')
    /\ Last(errors').code = "E011"
    /\ Last(errors').span.start.line = LineOf(FirstContent(pos))
    /\ UNCHANGED <<section, currentAccount, currentPeriod, data, warnings>>
    /\ pc' = "loop"

C8_ContentBeforeSection == [][C8_Step]_vars

\* 'foo' before any marker, then '>>> META' and a commodity line.
C8_Witness ==
    /\ Len(errors) = 1
    /\ errors[1].code = "E011"
    /\ errors[1].span.start.line = 1
    /\ section = "META"
    /\ "USD" \in data.meta.commodities

(***************************************************************************)
(* C9: a line whose first non-whitespace character is ';' is accepted in   *)
(* every section state: no entry, no diagnostic, and section,              *)
(* currentAccount, currentPeriod and meta unchanged.                       *)
(***************************************************************************)
C9_Step ==
    AtLoopHead /\ charAt(FirstContent(pos)) = ";" =>
        UNCHANGED <<data, errors, warnings, section, currentAccount, currentPeriod>>

C9_CommentLineSilent == [][C9_Step]_vars

\* A comment line has just been consumed inside an account block.
C9_Witness ==
    /\ section = "LEDGER"
    /\ currentAccount # Null
    /\ errors = <<>>
    /\ pos > 0
    /\ \E j \in LineStartsBefore(pos) :
           /\ charAt(HwsEnd(j)) = ";"
           /\ \A k \in LineStartsBefore(pos) : k <= j

(***************************************************************************)
(* C10: lines made only of spaces and tabs never produce output: when      *)
(* nothing but such lines is left of the input (the whole input, or its    *)
(* tail in any section state, the last line with or without its newline),  *)
(* no entry and no diagnostic is added.                                    *)
(***************************************************************************)
C10_Step ==
    pc = "loop" /\ OnlyBlankFrom(pos) => errors' = errors /\ data' = data

C10_BlankLinesSilent == [][C10_Step]_vars

(***************************************************************************)
(* Amounts as the text holds them.  i is the position where an amount      *)
(* starts: an optional sign, then a currency symbol and a number, or a     *)
(* number, optional spaces and tabs, and a currency symbol or identifier.  *)
(***************************************************************************)
\* The position of a line/column location of a span.
PosOf(loc) == LineStart(loc.line) + loc.col - 1

SignLen(i) == IF charAt(i) \in {"+", "-"} THEN 1 ELSE 0

\* The end of the run of digits with at most one '.' that starts at i.
RECURSIVE NumEnd(_, _)
NumEnd(i, seenDot) ==
    IF charAt(i) \in Digits THEN NumEnd(i + 1, seenDot)
    ELSE IF charAt(i) = "." /\ ~seenDot THEN NumEnd(i + 1, TRUE)
    ELSE i

\* The end of the run of identifier characters that starts at i.
RECURSIVE IdentEnd(_)
IdentEnd(i) == IF isIdentChar(charAt(i)) THEN IdentEnd(i + 1) ELSE i

HasLeadingSymbol(i) == charAt(i + SignLen(i)) \in CurrencySymbols

\* Where the number of the amount starts and ends
NumStart(i) == i + SignLen(i) + (IF HasLeadingSymbol(i) THEN 1 ELSE 0)

NumStop(i) == NumEnd(NumStart(i), FALSE)

\* Where a commodity written after the number starts
TrailingPos(i) == HwsEnd(NumStop(i))

\* The symbol or identifier the amount at i is written with
WrittenCommodity(i) ==
    IF HasLeadingSymbol(i) THEN charAt(i + SignLen(i))
    ELSE IF charAt(TrailingPos(i)) \in CurrencySymbols THEN charAt(TrailingPos(i))
    ELSE TextAt(TrailingPos(i), IdentEnd(TrailingPos(i)) - TrailingPos(i))

\* The text at i is a whole amount: a number and a commodity.
AmountShapeAt(i) ==
    /\ TextAt(NumStart(i), NumStop(i) - NumStart(i)) \notin {"", "."}
    /\ \/ HasLeadingSymbol(i)
       \/ charAt(TrailingPos(i)) \in CurrencySymbols \cup Letters

\* The position after the amount at i
AmountEnd(i) ==
    IF HasLeadingSymbol(i) THEN NumStop(i)
    ELSE IF charAt(TrailingPos(i)) \in CurrencySymbols THEN TrailingPos(i) + 1
    ELSE IdentEnd(TrailingPos(i))

\* The amounts an entry holds: its own, and that of a swap target.
Amounts(e) ==
    {e.amount} \cup
    (IF "target" \in DOMAIN e /\ e.target.kind = "swap" THEN {e.target.amount} ELSE {})

\* The entries a step appends
NewEntries ==
    {data'.ledger[i] : i \in (Len(data.ledger) + 1)..Len(data'.ledger)}
    \cup {data'.budget[i] : i \in (Len(data.budget) + 1)..Len(data'.budget)}

(***************************************************************************)
(* C11: every amount a line appends (ledger amount, assertion amount, swap *)
(* amount, budget amount; commodity before or after the number) has the    *)
(* commodity the alias map of that moment gives for the symbol or          *)
(* identifier it is written with, and that text itself when the map has no *)
(* such key.                                                               *)
(***************************************************************************)
C11_Resolved(written, aliases) ==
    IF written \in DOMAIN aliases THEN aliases[written] ELSE written

C11_Step ==
    \A e \in NewEntries : \A a \in Amounts(e) :
        a.commodity = C11_Resolved(WrittenCommodity(PosOf(a.span.start)), data.meta.aliases)

C11_AliasResolution == [][C11_Step]_vars

\* '-$1 +2.50 AAPL' and '== 7 RM' parsed under the aliases $ = USD, RM = MYR.
C11_Witness ==
    /\ Len(data.ledger) = 2
    /\ data.ledger[1].amount.commodity = "USD"
    /\ data.ledger[1].target.kind = "swap"
    /\ data.ledger[1].target.amount.commodity = "AAPL"
    /\ data.ledger[2].kind = "assertion"
    /\ data.ledger[2].amount.commodity = "MYR"
    /\ Len(data.budget) = 0

(***************************************************************************)
(* Alias declarations as the text holds them.  j is the start of a line.   *)
(***************************************************************************)
\* Where the symbol of 'alias: SYMBOL = COMMODITY' starts and ends
AliasSymbolPos(j) == HwsEnd(HwsEnd(j) + 6)

AliasSymbolEnd(j) ==
    IF charAt(AliasSymbolPos(j)) \in CurrencySymbols THEN AliasSymbolPos(j) + 1
    ELSE IdentEnd(AliasSymbolPos(j))

AliasSymbolOf(j) == TextAt(AliasSymbolPos(j), AliasSymbolEnd(j) - AliasSymbolPos(j))

AliasCommodityPos(j) == HwsEnd(HwsEnd(AliasSymbolEnd(j)) + 1)

AliasCommodityOf(j) ==
    TextAt(AliasCommodityPos(j), IdentEnd(AliasCommodityPos(j)) - AliasCommodityPos(j))

\* The line at j is a complete alias declaration of the META section.
IsAliasLine(j) ==
    /\ startsWith("alias:", HwsEnd(j))
    /\ charAt(HwsEnd(AliasSymbolEnd(j))) = "="
    /\ AliasSymbolOf(j) # ""
    /\ AliasCommodityOf(j) # ""
    /\ SectionAt(j) = "META"

\* The declarations of `symbol` on the lines before position j
AliasLinesBefore(symbol, j) ==
    {a \in LineStartsBefore(j) : IsAliasLine(a) /\ AliasSymbolOf(a) = symbol}

\* What `symbol` stands for on the line that starts at j: the commodity of its
\* last declaration before that line, and the symbol itself if there is none.
ResolvedAt(symbol, j) ==
    IF AliasLinesBefore(symbol, j) = {} THEN symbol
    ELSE AliasCommodityOf(Max(AliasLinesBefore(symbol, j)))

(***************************************************************************)
(* C12: alias declarations are not retroactive: in every state, each       *)
(* appended amount has the commodity its written symbol had by the         *)
(* declarations that precede the entry's line; declarations on later lines *)
(* (first declarations and re-declarations) leave it as it was.            *)
(***************************************************************************)
C12_AsOfItsLine(e) ==
    \A a \in Amounts(e) :
        a.commodity = ResolvedAt(WrittenCommodity(PosOf(a.span.start)),
                                 LineStart(e.span.start.line))

C12_NotRetroactive ==
    /\ \A i \in 1..Len(data.ledger) : C12_AsOfItsLine(data.ledger[i])
    /\ \A i \in 1..Len(data.budget) : C12_AsOfItsLine(data.budget[i])

\* Two entries written with '$', the second after a re-declaration of '$':
\* the first keeps the commodity of its time (USD, or '$' itself when no alias
\* was declared yet), the second has EUR.
C12_Witness ==
    /\ Len(data.ledger) = 2
    /\ data.ledger[1].amount.commodity \in {"USD", "$"}
    /\ data.ledger[2].amount.commodity = "EUR"
    /\ WrittenCommodity(PosOf(data.ledger[1].amount.span.start)) = "$"
    /\ WrittenCommodity(PosOf(data.ledger[2].amount.span.start)) = "$"
    /\ data.meta.aliases["$"] = "EUR"

(***************************************************************************)
(* C13: in every state data.meta.commodities holds the right-hand side of  *)
(* every alias of data.meta.aliases, and no step removes a commodity.      *)
(***************************************************************************)
C13_AliasTargetsDeclared ==
    \A symbol \in DOMAIN data.meta.aliases :
        data.meta.aliases[symbol] \in data.meta.commodities

C13_Step == data.meta.commodities \subseteq data'.meta.commodities

C13_AliasesDeclareCommodities ==
    [](C13_AliasTargetsDeclared) /\ [][C13_Step]_vars

\* '$' re-declared: both its old and its new commodity are declared.
C13_Witness ==
    /\ DOMAIN data.meta.aliases = {"$", "RM"}
    /\ data.meta.aliases["$"] = "EUR"
    /\ data.meta.commodities = {"USD", "MYR", "EUR"}

(***************************************************************************)
(* C14: every Transaction of data.ledger has amount.sign '+' or '-': a     *)
(* ledger line whose amount is written without a sign yields no            *)
(* Transaction with the null sign.                                         *)
(***************************************************************************)
C14_TransactionsSigned ==
    \A i \in 1..Len(data.ledger) :
        data.ledger[i].kind = "transaction" => data.ledger[i].amount.sign \in {"+", "-"}

(***************************************************************************)
(* Entry lines as the text holds them.  h is the position of the first     *)
(* non-whitespace character of the line the dispatcher is about to take.   *)
(***************************************************************************)
LineHead == FirstContent(pos)

\* The position of the end of the line that holds position i
RECURSIVE LineEnd(_)
LineEnd(i) == IF charAt(i) \in {"\n", ""} THEN i ELSE LineEnd(i + 1)

\* The dispatcher is about to hand a LEDGER entry line to parseLedgerLine
\* under a current account.
AtEntryLine ==
    /\ AtLoopHead
    /\ section = "LEDGER"
    /\ currentAccount # Null
    /\ charAt(LineHead) \in Digits \cup {"?"}

\* Where the date of the entry line starts: after an optional '?' and spaces
DatePos(h) == IF charAt(h) = "?" THEN HwsEnd(h + 1) ELSE h

\* The end of the run of digits and '-' that starts at i
RECURSIVE DateRunEnd(_)
DateRunEnd(i) == IF charAt(i) \in Digits \cup {"-"} THEN DateRunEnd(i + 1) ELSE i

DateShapeAt(d) ==
    /\ PeriodShapeAt(d)
    /\ charAt(d + 7) = "-"
    /\ \A k \in {8, 9} : charAt(d + k) \in Digits

\* The date token at d is exactly DDDD-DD-DD.
IsDateToken(d) == DateShapeAt(d) /\ DateRunEnd(d) = d + 10

\* The diagnostics a step adds
NewErrors == {errors'[i] : i \in (Len(errors) + 1)..Len(errors')}

(***************************************************************************)
(* C15: a LEDGER entry line under a current account whose date token       *)
(* deviates from DDDD-DD-DD (also by extra trailing digits, as in          *)
(* 2026-01-015) emits E003 and appends no entry.                           *)
(***************************************************************************)
C15_Step ==
    AtEntryLine /\ ~IsDateToken(DatePos(LineHead)) =>
        /\ \E e \in NewErrors : e.code = "E003"
        /\ data' = data

C15_BadDateRejected == [][C15_Step]_vars

(***************************************************************************)
(* C16: a BUDGET line that starts with a digit sets currentPeriod only     *)
(* when its token is exactly DDDD-DD; any other token (2026-013,           *)
(* 2026-01-15) emits E001 and leaves currentPeriod unchanged.              *)
(***************************************************************************)
C16_Step ==
    AtLoopHead /\ section = "BUDGET" /\ charAt(LineHead) \in Digits =>
        IF IsPeriodToken(LineHead)
        THEN currentPeriod' = Some(TextAt(LineHead, 7))
        ELSE /\ \E e \in NewErrors : e.code = "E001"
             /\ currentPeriod' = currentPeriod

C16_PeriodShapeStrict == [][C16_Step]_vars

(***************************************************************************)
(* C17: '?' marks an entry unverified only as the first non-whitespace     *)
(* character of a LEDGER entry line, right before the date; a '?' at any   *)
(* other place of a line (outside a comment) results in an E001.           *)
(***************************************************************************)
\* The '?' at k is the unverified marker of the line that starts at h.
IsUnverifiedMarker(h, k) == k = h /\ section = "LEDGER" /\ DateShapeAt(DatePos(h))

\* The line at h holds a '?' that is neither the marker nor comment text.
QuestionElsewhere(h) ==
    \E k \in h..(LineEnd(h) - 1) :
        /\ charAt(k) = "?"
        /\ ~IsUnverifiedMarker(h, k)
        /\ \A c \in h..(k - 1) : charAt(c) # ";"

C17_Step ==
    AtLoopHead =>
        /\ \A e \in NewEntries :
               "unverified" \in DOMAIN e /\ e.unverified => IsUnverifiedMarker(LineHead, LineHead)
                                                            /\ charAt(LineHead) = "?"
        /\ QuestionElsewhere(LineHead) => \E e \in NewErrors : e.code = "E001"

C17_QuestionMarkOnlyBeforeDate == [][C17_Step]_vars

(***************************************************************************)
(* C20: error recovery: a LEDGER entry line with a malformed date under    *)
(* account @A emits exactly one E003 and nothing else and leaves section,  *)
(* currentAccount and data as they were, so that the entry line after it   *)
(* is parsed and appended under @A as if the malformed line were absent.   *)
(***************************************************************************)
C20_Step ==
    AtEntryLine /\ ~IsDateToken(DatePos(LineHead)) =>
        /\ Len(errors') = Len(errors) + 1
        /\ IsPrefix(errors, errors')
        /\ Last(errors').code = "E003"
        /\ UNCHANGED <<section, currentAccount, data>>
        /\ pc' = "loop"

C20_BadDateRecovery == [][C20_Step]_vars

(***************************************************************************)
(* C18: on a LEDGER entry line the two characters after the date and       *)
(* horizontal whitespace decide the kind of the entry.                     *)
(***************************************************************************)
\* Where the text after the date and horizontal whitespace starts
AfterDate(h) == HwsEnd(DatePos(h) + 10)

\* The entry line at the loop head has a date and '==' after it.
AtAssertionLine ==
    /\ AtEntryLine
    /\ DateShapeAt(DatePos(LineHead))
    /\ startsWith("==", AfterDate(LineHead))

\* Where the amount of the assertion line starts
AssertionAmountPos(h) == HwsEnd(AfterDate(h) + 2)

\* The step appends exactly one entry, an Assertion with the date, the
\* current account and the unverified flag of the line and the amount after
\* the '=='.
C18_OneAssertion ==
    /\ data'.budget = data.budget
    /\ Len(data'.ledger) = Len(data.ledger) + 1
    /\ IsPrefix(data.ledger, data'.ledger)
    /\ Last(data'.ledger).kind = "assertion"
    /\ Last(data'.ledger).date = TextAt(DatePos(LineHead), 10)
    /\ Last(data'.ledger).account = currentAccount[1]
    /\ Last(data'.ledger).unverified = (charAt(LineHead) = "?")
    /\ PosOf(Last(data'.ledger).amount.span.start) = AssertionAmountPos(LineHead)

\* No step but that of an assertion line appends an Assertion.
C18_OnlyAfterDate ==
    \A e \in NewEntries :
        "kind" \in DOMAIN e /\ e.kind = "assertion" => AtAssertionLine

\* C18 as stated: '==' after the date yields exactly one Assertion and never
\* a Transaction; anything else yields no Assertion.
C18_Stated_Step ==
    /\ AtAssertionLine => C18_OneAssertion
    /\ C18_OnlyAfterDate

C18_EqualsYieldsAssertion == [][C18_Stated_Step]_vars

\* C18 as amended: '==' after the date yields exactly one Assertion when a
\* whole amount follows it, and otherwise E002 and no entry; never a
\* Transaction.  Anything else yields no Assertion.
C18_Amended_Step ==
    /\ AtAssertionLine =>
           IF AmountShapeAt(AssertionAmountPos(LineHead))
           THEN C18_OneAssertion /\ errors' = errors
           ELSE /\ data' = data
                /\ NewErrors # {}
                /\ \A e \in NewErrors : e.code = "E002"
    /\ C18_OnlyAfterDate

C18_EqualsDecidesKind == [][C18_Amended_Step]_vars

\* An unverified Assertion from '? ... == 7 RM', and before it a line with
\* '==' after its amount that yielded an E001 and nothing else.
C18_Witness ==
    /\ Len(data.ledger) = 1
    /\ data.ledger[1].kind = "assertion"
    /\ data.ledger[1].unverified
    /\ data.ledger[1].span.start.line = 4
    /\ Len(errors) = 1
    /\ errors[1].code = "E001"
    /\ errors[1].span.start.line = 3

(***************************************************************************)
(* C19: the character after the amount and whitespace fixes the target of  *)
(* a Transaction: '&' category; '@' account, with the &Category that       *)
(* follows when the next non-whitespace character is '&' and null          *)
(* otherwise; '+', '-', a digit or a currency symbol swap; anything else   *)
(* (the end of the line too) E001 and no entry.                            *)
(***************************************************************************)
\* The end of the hierarchical name that starts at i
RECURSIVE HierEnd(_)
HierEnd(i) ==
    IF isIdentChar(charAt(i)) THEN HierEnd(i + 1)
    ELSE IF charAt(i) = ":" /\ isIdentChar(charAt(i + 1)) THEN HierEnd(i + 1)
    ELSE i

\* The text of the reference (sigil and name) that starts at i
RefTextAt(i) == TextAt(i, HierEnd(i + 1) - i)

\* The entry line at the loop head has a date and a whole amount after it.
AtTransactionLine ==
    /\ AtEntryLine
    /\ DateShapeAt(DatePos(LineHead))
    /\ ~startsWith("==", AfterDate(LineHead))
    /\ AmountShapeAt(AfterDate(LineHead))

\* Where the target of the transaction line starts
TargetPos(h) == HwsEnd(AmountEnd(AfterDate(h)))

\* Where the text after the account target and whitespace starts
AfterAccount(h) == HwsEnd(HierEnd(TargetPos(h) + 1))

\* The step appends exactly one entry, a Transaction.
C19_OneTransaction ==
    /\ data'.budget = data.budget
    /\ Len(data'.ledger) = Len(data.ledger) + 1
    /\ IsPrefix(data.ledger, data'.ledger)
    /\ Last(data'.ledger).kind = "transaction"

C19_Category ==
    /\ C19_OneTransaction
    /\ Last(data'.ledger).target.kind = "category"
    /\ Last(data'.ledger).target.ref.raw = RefTextAt(TargetPos(LineHead))

C19_Account ==
    /\ C19_OneTransaction
    /\ Last(data'.ledger).target.kind = "account"
    /\ Last(data'.ledger).target.ref.raw = RefTextAt(TargetPos(LineHead))
    /\ IF charAt(AfterAccount(LineHead)) = "&"
       THEN /\ Last(data'.ledger).target.category # Null
            /\ Last(data'.ledger).target.category[1].raw = RefTextAt(AfterAccount(LineHead))
       ELSE Last(data'.ledger).target.category = Null

C19_Swap ==
    /\ C19_OneTransaction
    /\ Last(data'.ledger).target.kind = "swap"
    /\ PosOf(Last(data'.ledger).target.amount.span.start) = TargetPos(LineHead)

C19_Rejected ==
    /\ data' = data
    /\ \E e \in NewErrors : e.code = "E001"

C19_Step ==
    AtTransactionLine =>
        CASE charAt(TargetPos(LineHead)) = "&"
                 /\ isIdentChar(charAt(TargetPos(LineHead) + 1)) -> C19_Category
          [] charAt(TargetPos(LineHead)) = "@"
                 /\ isIdentChar(charAt(TargetPos(LineHead) + 1)) -> C19_Account
          [] charAt(TargetPos(LineHead)) \in {"+", "-"} \cup Digits \cup CurrencySymbols
                 /\ AmountShapeAt(TargetPos(LineHead)) -> C19_Swap
          [] charAt(TargetPos(LineHead)) \notin
                 {"&", "@", "+", "-"} \cup Digits \cup CurrencySymbols -> C19_Rejected
          [] OTHER -> TRUE

C19_TargetByFirstCharacter == [][C19_Step]_vars

(***************************************************************************)
(* The spans of the nodes the parser has produced                          *)
(***************************************************************************)
TargetSpans(t) ==
    CASE t.kind = "category" -> {t.ref.span}
      [] t.kind = "account" ->
            {t.ref.span} \cup (IF t.category = Null THEN {} ELSE {t.category[1].span})
      [] t.kind = "swap" -> {t.amount.span}

\* The spans of a ledger entry: its own, and those of its account, amount,
\* target and tags.
LedgerEntrySpans(e) ==
    {e.span, e.account.span, e.amount.span}
    \cup (IF e.kind = "transaction"
          THEN TargetSpans(e.target) \cup {e.tags[i].span : i \in 1..Len(e.tags)}
          ELSE {})

BudgetEntrySpans(e) == {e.span, e.category.span, e.amount.span}

AllSpans ==
    UNION {LedgerEntrySpans(data.ledger[i]) : i \in 1..Len(data.ledger)}
    \cup UNION {BudgetEntrySpans(data.budget[i]) : i \in 1..Len(data.budget)}
    \cup {errors[i].span : i \in 1..Len(errors)}
    \cup {warnings[i].span : i \in 1..Len(warnings)}
    \cup (IF currentAccount = Null THEN {} ELSE {currentAccount[1].span})

(***************************************************************************)
(* C21: every span the parser has produced (on budget entries, ledger      *)
(* entries, amounts, account, category and tag references, diagnostics)    *)
(* has start <= end in (line, column) order, and all its lines and columns *)
(* are at least 1.                                                         *)
(***************************************************************************)
C21_Ordered(s) ==
    /\ s.start.line >= 1 /\ s.start.col >= 1
    /\ s.end.line >= 1 /\ s.end.col >= 1
    /\ s.start.line <= s.end.line
    /\ s.start.line = s.end.line => s.start.col <= s.end.col

MaxFormLines == 2

FormPreambles ==
    {">>> META\nalias: RM = MYR\n>>> LEDGER\n@A\n",
     "x\n; c\n>>> META\n",
     ">>> BUDGET\n2026-01\n"}

FormLines ==
    {"",
     "@:foo",
     "  @B:c",
     "2026-01-02 -5 $ &Food #t #t #u:v ; c #w",
     "\t2026-01-03 -5 $ &Food x #t",
     "2026-01-04 -$500 &Food",
     "2026-01-05 -500 $ &Food",
     "2026-01-06 +RM50 &Food",
     "  ? 2026-01-07 == 7 RM",
     "untracked: @",
     "untracked: @:*",
     "untracked: @*",
     "  untracked: @B:c:*",
     "untracked: @A, @B",
     "  &Food:Out 50 $",
     " \t; note",
     "  >>> LEDGER",
     ">>> BUDGET"}

FormSources ==
    {pre \o joinLines(ls, nl) :
        pre \in FormPreambles,
        ls \in UNION {[1..n -> FormLines] : n \in 0..MaxFormLines},
        nl \in BOOLEAN}

FormInit ==
    /\ source \in FormSources
    /\ pos = createParser.pos
    /\ line = createParser.line
    /\ col = createParser.col
    /\ section = createParser.section
    /\ currentPeriod = createParser.currentPeriod
    /\ currentAccount = createParser.currentAccount
    /\ data = createParser.data
    /\ errors = createParser.errors
    /\ warnings = createParser.warnings
    /\ tagLoopPos = createParser.tagLoopPos
    /\ pc = "loop"
    /\ calls = 1

FormSpec == FormInit /\ [][Next]_vars

(***************************************************************************)
(* The references the parser has produced, each with its sigil             *)
(***************************************************************************)
TargetRefs(t) ==
    CASE t.kind = "category" -> {<<"&", t.ref>>}
      [] t.kind = "account" ->
            {<<"@", t.ref>>}
            \cup (IF t.category = Null THEN {} ELSE {<<"&", t.category[1]>>})
      [] t.kind = "swap" -> {}

LedgerEntryRefs(e) ==
    {<<"@", e.account>>}
    \cup (IF e.kind = "transaction"
          THEN TargetRefs(e.target) \cup {<<"#", e.tags[i]>> : i \in 1..Len(e.tags)}
          ELSE {})

AllRefs ==
    UNION {LedgerEntryRefs(data.ledger[i]) : i \in 1..Len(data.ledger)}
    \cup {<<"&", data.budget[i].category>> : i \in 1..Len(data.budget)}
    \cup (IF currentAccount = Null THEN {} ELSE {<<"@", currentAccount[1]>>})

\* The string is a non-empty run of identifier characters.
IsIdentifier(s) ==
    /\ s # ""
    /\ \A k \in 1..Len(s) : isIdentChar(SubSeq(s, k, k))

\* The segments joined with ':'
RECURSIVE JoinColon(_)
JoinColon(path) ==
    IF Len(path) = 0 THEN ""
    ELSE IF Len(path) = 1 THEN path[1]
    ELSE path[1] \o ":" \o JoinColon(Tail(path))

(***************************************************************************)
(* C22: every AccountRef, CategoryRef and TagRef the parser has produced   *)
(* has a non-empty path of non-empty identifier segments, and its raw is   *)
(* the sigil followed by the segments joined with ':' (so that a name that *)
(* starts with ':', as in @:foo, yields no reference).                     *)
(***************************************************************************)
C22_WellFormed(sigil, ref) ==
    /\ Len(ref.path) >= 1
    /\ \A k \in 1..Len(ref.path) : IsIdentifier(ref.path[k])
    /\ ref.raw = sigil \o JoinColon(ref.path)

C22_RefsWellFormed == \A r \in AllRefs : C22_WellFormed(r[1], r[2])

(***************************************************************************)
(* C23: every string of data.meta.untrackedPatterns has one of the three   *)
(* accepted forms: '@*', '@' and a hierarchical name of non-empty          *)
(* segments, or such a name followed by ':*'; an untracked directive with  *)
(* nothing valid after its '@' stores no pattern.                          *)
(***************************************************************************)
\* The string is a hierarchical name: identifiers joined with ':'.
IsHierarchicalName(s) ==
    /\ s # ""
    /\ \A k \in 1..Len(split(s)) : IsIdentifier(split(s)[k])

EndsWith(s, t) == Len(s) >= Len(t) /\ SubSeq(s, Len(s) - Len(t) + 1, Len(s)) = t

C23_Accepted(pattern) ==
    \/ pattern = "@*"
    \/ /\ IsPrefix("@", pattern)
       /\ \/ IsHierarchicalName(SubSeq(pattern, 2, Len(pattern)))
          \/ /\ EndsWith(pattern, ":*")
             /\ IsHierarchicalName(SubSeq(pattern, 2, Len(pattern) - 2))

C23_PatternsAccepted ==
    \A i \in 1..Len(data.meta.untrackedPatterns) :
        C23_Accepted(data.meta.untrackedPatterns[i])

(***************************************************************************)
(* Untracked directives as the text holds them                             *)
(***************************************************************************)
\* An account pattern starts at i: '@*', or '@' and an identifier.
IsPatternAt(i) ==
    /\ charAt(i) = "@"
    /\ charAt(i + 1) = "*" \/ isIdentChar(charAt(i + 1))

\* The end of the account pattern that starts at i
PatternEnd(i) ==
    IF charAt(i + 1) = "*" THEN i + 2
    ELSE IF startsWith(":*", HierEnd(i + 1)) THEN HierEnd(i + 1) + 2
    ELSE HierEnd(i + 1)

\* The text from i on is a list of account patterns separated by ','.
RECURSIVE IsPatternList(_)
IsPatternList(i) ==
    /\ IsPatternAt(i)
    /\ \/ charAt(HwsEnd(PatternEnd(i))) \in {"\n", "", ";"}
       \/ /\ charAt(HwsEnd(PatternEnd(i))) = ","
          /\ IsPatternList(HwsEnd(HwsEnd(PatternEnd(i)) + 1))

\* The patterns of the list that starts at i, in order
RECURSIVE PatternList(_)
PatternList(i) ==
    <<TextAt(i, PatternEnd(i) - i)>>
    \o (IF charAt(HwsEnd(PatternEnd(i))) = ","
        THEN PatternList(HwsEnd(HwsEnd(PatternEnd(i)) + 1))
        ELSE <<>>)

\* The dispatcher is about to hand an untracked directive to
\* parseMetaDirective; the list starts after 'untracked:' and whitespace.
AtUntrackedLine ==
    /\ AtLoopHead
    /\ section = "META"
    /\ startsWith("untracked:", LineHead)

UntrackedListPos == HwsEnd(LineHead + 10)

(***************************************************************************)
(* C27: an untracked directive takes a comma-separated list of account     *)
(* patterns: every pattern of the list of one 'untracked:' line is         *)
(* appended to data.meta.untrackedPatterns, in order.                      *)
(***************************************************************************)
C27_Step ==
    AtUntrackedLine /\ IsPatternList(UntrackedListPos) =>
        data'.meta.untrackedPatterns =
            data.meta.untrackedPatterns \o PatternList(UntrackedListPos)

C27_UntrackedList == [][C27_Step]_vars

(***************************************************************************)
(* C24: the tags of a Transaction are exactly the #tag tokens written      *)
(* after the target and before the comment, in the order of the text, a    *)
(* tag written twice being kept twice.                                     *)
(***************************************************************************)
\* Where the target of the transaction line at h ends
TargetEnd(h) ==
    CASE charAt(TargetPos(h)) = "&" -> HierEnd(TargetPos(h) + 1)
      [] charAt(TargetPos(h)) = "@" ->
            IF charAt(AfterAccount(h)) = "&" /\ isIdentChar(charAt(AfterAccount(h) + 1))
            THEN HierEnd(AfterAccount(h) + 1)
            ELSE HierEnd(TargetPos(h) + 1)
      [] OTHER -> AmountEnd(TargetPos(h))

\* Where the comment of the line starts: the first ';' at or after i, or the
\* end of the line.
RECURSIVE CommentPos(_)
CommentPos(i) == IF charAt(i) \in {";", "\n", ""} THEN i ELSE CommentPos(i + 1)

\* The tag tokens ('#' and a name) written between i and r, in order
RECURSIVE TagTokens(_, _)
TagTokens(i, r) ==
    IF i >= r THEN <<>>
    ELSE IF charAt(i) = "#" /\ isIdentChar(charAt(i + 1))
         THEN <<RefTextAt(i)>> \o TagTokens(HierEnd(i + 1), r)
         ELSE TagTokens(i + 1, r)

C24_Step ==
    AtTransactionLine /\ Len(data'.ledger) = Len(data.ledger) + 1 =>
        [i \in 1..Len(Last(data'.ledger).tags) |-> Last(data'.ledger).tags[i].raw]
            = TagTokens(TargetEnd(LineHead), CommentPos(TargetEnd(LineHead)))

C24_TagsAsWritten == [][C24_Step]_vars

(***************************************************************************)
(* C26: an amount may carry its commodity before or after the number, the  *)
(* sign first, a currency symbol and an identifier commodity alike: each   *)
(* of the documented forms -$500, -500 $ and +RM50 parses to an Amount     *)
(* (its commodity resolved through the alias map) with no diagnostic.      *)
(***************************************************************************)
\* The documented forms: text, sign, value and the commodity as written
DocumentedForms ==
    {[text |-> "-$500", sign |-> "-", value |-> 500, written |-> "$"],
     [text |-> "-500 $", sign |-> "-", value |-> 500, written |-> "$"],
     [text |-> "+RM50", sign |-> "+", value |-> 50, written |-> "RM"]}

\* The entry line at the loop head has a date, then the form f as its
\* amount, then a category target.
AtFormLine(f) ==
    /\ AtEntryLine
    /\ DateShapeAt(DatePos(LineHead))
    /\ startsWith(f.text \o " &Food", AfterDate(LineHead))

C26_Step ==
    \A f \in DocumentedForms :
        AtFormLine(f) =>
            /\ errors' = errors
            /\ Len(data'.ledger) = Len(data.ledger) + 1
            /\ Last(data'.ledger).amount.sign = f.sign
            /\ Last(data'.ledger).amount.value = [num |-> f.value, den |-> 1]
            /\ Last(data'.ledger).amount.commodity =
                   C11_Resolved(f.written, data.meta.aliases)

C26_DocumentedForms == [][C26_Step]_vars

(***************************************************************************)
(* parse() as a function of the source, and parse() called again           *)
(***************************************************************************)
\* The branch of the dispatcher taken at line head h
dispatchLine(h) ==
    CASE dispatch(h) = "comment" -> skipLine(h)
      [] dispatch(h) = "marker" -> parseSectionMarker(h)
      [] dispatch(h) = "meta" -> parseMetaDirective(h)
      [] dispatch(h) = "budget" -> parseBudgetLine(h)
      [] dispatch(h) = "ledger" -> parseLedgerLine(h)
      [] dispatch(h) = "none" -> contentBeforeSection(h)

\* while (!atEnd(p)) { skipBlankLines(p); if (atEnd(p)) break; ... }
RECURSIVE parseLoop(_)
parseIteration(b) ==
    IF atEnd(b) THEN b ELSE parseLoop(dispatchLine(skipHorizontalWhitespace(b)))

parseLoop(p) == IF atEnd(p) THEN p ELSE parseIteration(skipBlankLines(p))

\* return { data: p.data, errors: p.errors, warnings: p.warnings }
parseResult(p) == [data |-> p.data, errors |-> p.errors, warnings |-> p.warnings]

\* parse(source), for the source of the state
parse == parseResult(parseLoop(createParser))

\* The sample file of the language
Fixture ==
    ">>> META\n"
    \o "commodity: USD\n"
    \o "alias: $ = USD\n"
    \o "alias: RM = MYR\n"
    \o "untracked: @Brokerage\n"
    \o "\n"
    \o ">>> BUDGET\n"
    \o "2026-01\n"
    \o "  &Groceries 500 $\n"
    \o "  &Dining -50 $\n"
    \o "\n"
    \o ">>> LEDGER\n"
    \o "@Checking\n"
    \o "  2026-01-01 +5000 $ &Opening:Balance\n"
    \o "  2026-01-16 -100 $ &Groceries #traderjoes\n"
    \o "  2026-01-20 -1000 $ @Brokerage &Investing\n"
    \o "  2026-01-31 == 6800 $\n"
    \o "\n"
    \o "@Brokerage\n"
    \o "  2026-01-21 -1000 $ +6.5 AAPL\n"
    \o "\n"
    \o "@Maybank\n"
    \o "  ? 2026-01-26 == 1670 RM"

\* The sources parse() is called with: the sample file, with and without its
\* last newline, after content that belongs to no section and before blank
\* lines, and short texts that leave or would pick up parser state.
CallSources ==
    {Fixture,
     Fixture \o "\n",
     "x\n; c\n" \o Fixture,
     Fixture \o "\n  \n",
     "",
     ">>> LEDGER\n@A\n2026-01-02 -5 $ &Food",
     ">>> META\nalias: $ = EUR\n",
     ">>> BUDGET\n2026-02\n&Food 50 $\nfoo\n",
     "2026-01-02 -5 $ &Food\n",
     "&Food 50 $"}

\* The number of calls of parse() the model follows
MaxCalls == 2

CallInit ==
    /\ source \in CallSources
    /\ pos = createParser.pos
    /\ line = createParser.line
    /\ col = createParser.col
    /\ section = createParser.section
    /\ currentPeriod = createParser.currentPeriod
    /\ currentAccount = createParser.currentAccount
    /\ data = createParser.data
    /\ errors = createParser.errors
    /\ warnings = createParser.warnings
    /\ tagLoopPos = createParser.tagLoopPos
    /\ pc = "loop"
    /\ calls = 1

\* Mutant: the ledger is created once and every call fills the same one.
Call_sharedLedger ==
    /\ pc = "done"
    /\ calls < MaxCalls
    /\ source' \in CallSources
    /\ pos' = createParser.pos
    /\ line' = createParser.line
    /\ col' = createParser.col
    /\ section' = createParser.section
    /\ currentPeriod' = createParser.currentPeriod
    /\ currentAccount' = createParser.currentAccount
    /\ data' = data
    /\ errors' = createParser.errors
    /\ warnings' = createParser.warnings
    /\ tagLoopPos' = createParser.tagLoopPos
    /\ pc' = "loop"
    /\ calls' = calls + 1

\* parse() is called again, after the call before it has returned:
\* const p = createParser(source)
Call ==
    /\ pc = "done"
    /\ calls < MaxCalls
    /\ source' \in CallSources
    /\ pos' = createParser.pos
    /\ line' = createParser.line
    /\ col' = createParser.col
    /\ section' = createParser.section
    /\ currentPeriod' = createParser.currentPeriod
    /\ currentAccount' = createParser.currentAccount
    /\ data' = createParser.data
    /\ errors' = createParser.errors
    /\ warnings' = createParser.warnings
    /\ tagLoopPos' = createParser.tagLoopPos
    /\ pc' = "loop"
    /\ calls' = calls + 1

CallNext == Next \/ Call

CallSpec == CallInit /\ [][CallNext]_vars

(***************************************************************************)
(* C25: the sample file parses with no errors and no warnings to 2 budget  *)
(* entries of period 2026-01 and 6 ledger entries, 4 transactions and 2    *)
(* assertions, in the order of the text, each with the account of its      *)
(* block, '$' resolved to USD and 'RM' to MYR.                             *)
(***************************************************************************)
\* parse() has returned from the sample file.
FixtureParsed == pc = "done" /\ source \in {Fixture, Fixture \o "\n"}

C28_StartsAnew ==
    pc = "loop" /\ pos = 0 =>
        /\ section = "null"
        /\ currentPeriod = Null
        /\ currentAccount = Null
        /\ data = createLedger
        /\ errors = <<>>
        /\ warnings = <<>>

C28_ResultOfSource == pc = "done" => parseResult(Parser) = parse

C28_CallsIndependent == C28_StartsAnew /\ C28_ResultOfSource

\* The second call has returned from an entry line under no section: one
\* E011 and no entry, with nothing of the section, account or entries of a
\* call before it.
C28_Witness ==
    /\ calls = 2
    /\ pc = "done"
    /\ source = "2026-01-02 -5 $ &Food\n"
    /\ data = createLedger
    /\ Len(errors) = 1
    /\ errors[1].code = "E011"

(***************************************************************************)
(* What a line yields, columns aside: every node without the columns of    *)
(* its span, every diagnostic as its code.                                 *)
(***************************************************************************)
SpanLines(s) == <<s.start.line, s.end.line>>

PlainRef(r) == [path |-> r.path, raw |-> r.raw, lines |-> SpanLines(r.span)]

PlainAmount(a) ==
    [sign |-> a.sign, value |-> a.value, commodity |-> a.commodity,
     lines |-> SpanLines(a.span)]

PlainTarget(t) ==
    CASE t.kind = "category" -> [kind |-> t.kind, ref |-> PlainRef(t.ref)]
      [] t.kind = "account" ->
            [kind |-> t.kind, ref |-> PlainRef(t.ref),
             category |-> IF t.category = Null THEN Null
                          ELSE Some(PlainRef(t.category[1]))]
      [] t.kind = "swap" -> [kind |-> t.kind, amount |-> PlainAmount(t.amount)]

PlainLedgerEntry(e) ==
    IF e.kind = "transaction"
    THEN [kind |-> e.kind, date |-> e.date, account |-> PlainRef(e.account),
          unverified |-> e.unverified, amount |-> PlainAmount(e.amount),
          target |-> PlainTarget(e.target),
          tags |-> [i \in 1..Len(e.tags) |-> PlainRef(e.tags[i])],
          comment |-> e.comment, lines |-> SpanLines(e.span)]
    ELSE [kind |-> e.kind, date |-> e.date, account |-> PlainRef(e.account),
          unverified |-> e.unverified, amount |-> PlainAmount(e.amount),
          comment |-> e.comment, lines |-> SpanLines(e.span)]

PlainBudgetEntry(e) ==
    [period |-> e.period, category |-> PlainRef(e.category),
     amount |-> PlainAmount(e.amount), lines |-> SpanLines(e.span)]

\* The parser q after a line, columns aside: context, meta, entries,
\* diagnostic codes, and where the next line starts.
Outcome(q) ==
    [section |-> q.section,
     currentPeriod |-> q.currentPeriod,
     currentAccount |-> IF q.currentAccount = Null THEN Null
                        ELSE Some(PlainRef(q.currentAccount[1])),
     meta |-> q.data.meta,
     budget |-> [i \in 1..Len(q.data.budget) |-> PlainBudgetEntry(q.data.budget[i])],
     ledger |-> [i \in 1..Len(q.data.ledger) |-> PlainLedgerEntry(q.data.ledger[i])],
     errors |-> [i \in 1..Len(q.errors) |-> q.errors[i].code],
     warnings |-> [i \in 1..Len(q.warnings) |-> q.warnings[i].code],
     pos |-> q.pos,
     line |-> q.line]

\* The line the dispatcher is about to take has content, and spaces or tabs
\* before it.
AtIndentedLine ==
    /\ AtLoopHead
    /\ LineHead < Len(source)
    /\ charAt(LineHead - 1) \in {" ", "\t"}

\* The parser on the content of that line with the indentation taken away:
\* at the first character of the content, in column 1.
Unindented == [skipBlankLines(Parser) EXCEPT !.pos = LineHead]

(***************************************************************************)
(* C29: indentation is cosmetic: a line that has content yields, after any *)
(* leading spaces and tabs, the entry, meta change, context change and     *)
(* diagnostic codes it yields without them; only the columns of spans      *)
(* differ.                                                                 *)
(***************************************************************************)
C29_Step == AtIndentedLine => Outcome(Parser') = Outcome(dispatchLine(Unindented))

C29_IndentationCosmetic == [][C29_Step]_vars

\* The account header '  @B:c' and the assertion '  ? 2026-01-07 == 7 RM',
\* both indented by two spaces.
C29_Witness ==
    /\ currentAccount # Null
    /\ currentAccount[1].raw = "@B:c"
    /\ currentAccount[1].span.start.col = 3
    /\ Len(data.ledger) = 1
    /\ data.ledger[1].kind = "assertion"
    /\ data.ledger[1].span.start.col = 3
    /\ data.ledger[1].amount.commodity = "MYR"
    /\ errors = <<>>

(***************************************************************************)
(* C30: no entry is appended without its context: a LEDGER line that       *)
(* starts with '?' or a digit while there is no current account emits      *)
(* E001 and appends nothing, and so does a BUDGET line that starts with    *)
(* '&' while there is no current period; such are the entry lines right    *)
(* after a section marker.  Every entry a step appends has the account, or *)
(* the period, that was current before the step.                           *)
(***************************************************************************)
\* The step adds one diagnostic, an E001, and leaves data as it was.
C30_Rejected ==
    /\ data' = data
    /\ Len(errors') = Len(errors) + 1
    /\ IsPrefix(errors, errors')
    /\ Last(errors').code = "E001"

C30_HasContext(e) ==
    IF "kind" \in DOMAIN e
    THEN currentAccount # Null /\ e.account = currentAccount[1]
    ELSE currentPeriod # Null /\ e.period = currentPeriod[1]

C30_Step ==
    /\ AtLoopHead /\ section = "LEDGER" /\ currentAccount = Null
          /\ charAt(LineHead) \in Digits \cup {"?"} => C30_Rejected
    /\ AtLoopHead /\ section = "BUDGET" /\ currentPeriod = Null
          /\ charAt(LineHead) = "&" => C30_Rejected
    /\ \A e \in NewEntries : C30_HasContext(e)

C30_NoEntryWithoutContext == [][C30_Step]_vars

\* Under @A a second LEDGER marker, then an assertion line: one E001 on
\* line 6, no entry, still no account.
C30_Witness ==
    /\ source = ">>> META\nalias: RM = MYR\n>>> LEDGER\n@A\n  >>> LEDGER\n  ? 2026-01-07 == 7 RM"
    /\ pos = Len(source)
    /\ section = "LEDGER"
    /\ currentAccount = Null
    /\ data.ledger = <<>>
    /\ Len(errors) = 1
    /\ errors[1].code = "E001"
    /\ errors[1].span.start.line = 6

(***************************************************************************)
(* Inputs that put the lines of every section's grammar, well-formed and   *)
(* malformed, under every section.                                         *)
(***************************************************************************)
MaxMixLines == 2

MixPreambles ==
    {"",
     ">>> META\nalias: $ = USD\n",
     ">>> BUDGET\n2026-01\n",
     ">>> LEDGER\n@A\n"}

MixLines ==
    {"  ", "; note", ">>> LEDGER", ">> META",
     "commodity: USD", "alias: = USD", "alias: $ =", "alias: RM = MYR",
     "2026-02", "  &Food 50 $",
     "@", "@B",
     "  2026-01-02 -5 $ &Food #t ; c",
     "2026-01-03 -5 _x &Food",
     "2026-01-04 -5 9x &Food",
     "2026-01-05 +5 USD @B &Food",
     "\t? 2026-01-06 == 7 RM",
     "2026-01-07 -1 $ +2.50 AAPL",
     "2026-01-08 -"}

MixSources ==
    {pre \o joinLines(ls, nl) :
        pre \in MixPreambles,
        ls \in UNION {[1..n -> MixLines] : n \in 0..MaxMixLines},
        nl \in BOOLEAN}

MixInit ==
    /\ source \in MixSources
    /\ pos = createParser.pos
    /\ line = createParser.line
    /\ col = createParser.col
    /\ section = createParser.section
    /\ currentPeriod = createParser.currentPeriod
    /\ currentAccount = createParser.currentAccount
    /\ data = createParser.data
    /\ errors = createParser.errors
    /\ warnings = createParser.warnings
    /\ tagLoopPos = createParser.tagLoopPos
    /\ pc = "loop"
    /\ calls = 1

MixSpec == MixInit /\ [][Next]_vars

(***************************************************************************)
(* C31: fresh-line invariant.  At the head of every dispatcher iteration   *)
(* the cursor is at column 1 or at the end of the input, and every call of *)
(* a line parser (section marker, META, BUDGET, LEDGER) leaves the cursor  *)
(* right after the newline that ends the line it was given, or at the end  *)
(* of the input when no newline ends that line, on success and on every    *)
(* failure path.                                                           *)
(***************************************************************************)
C31_AtLineStart == pc = "loop" => (col = 1 \/ atEnd(Parser))

\* The iteration about to be taken hands its line to a line parser.
AtParsedLine ==
    /\ AtLoopHead
    /\ charAt(LineHead) # ";"
    /\ charAt(LineHead) = ">" \/ section # "null"

C31_Step ==
    (AtParsedLine /\ pc' = "loop") =>
        IF charAt(LineEnd(LineHead)) = "\n"
        THEN pos' = LineEnd(LineHead) + 1
        ELSE pos' >= Len(source)

C31_FreshLine == [](C31_AtLineStart) /\ [][C31_Step]_vars

\* A line parser has rejected an amount and left the cursor at the head of
\* the line after.
C31_Witness ==
    /\ pc = "loop"
    /\ pos < Len(source)
    /\ col = 1
    /\ Len(errors) > 0
    /\ Last(errors).code = "E002"

(***************************************************************************)
(* C32: a malformed line always yields a diagnostic: an alias directive of *)
(* the META section that lacks its symbol (alias: = USD) or its commodity  *)
(* (alias: $ =) leaves the alias map and the commodity set as they were    *)
(* and emits at least one error.                                           *)
(***************************************************************************)
\* The dispatcher is about to hand parseMetaDirective an alias directive with
\* no symbol, or with '=' and no commodity after it.
AtAliasLacking ==
    /\ AtLoopHead
    /\ section = "META"
    /\ startsWith("alias:", LineHead)
    /\ \/ AliasSymbolOf(LineHead) = ""
       \/ /\ charAt(HwsEnd(AliasSymbolEnd(LineHead))) = "="
          /\ AliasCommodityOf(LineHead) = ""

C32_Step ==
    AtAliasLacking =>
        /\ data'.meta = data.meta
        /\ Len(errors') > Len(errors)

C32_MalformedAliasReported == [][C32_Step]_vars

(***************************************************************************)
(* C33: an amount written without a leading currency symbol takes as its   *)
(* commodity what follows the number and optional horizontal whitespace: a *)
(* currency symbol or any non-empty identifier, also one that starts with  *)
(* '_' or a digit.  Only when neither is there does the amount fail with   *)
(* E002, and then the line appends nothing.                                *)
(***************************************************************************)
\* The entry line at the loop head has a date and after it an amount that is
\* a number with no currency symbol before it.
AtTrailingAmountLine ==
    /\ AtEntryLine
    /\ DateShapeAt(DatePos(LineHead))
    /\ ~startsWith("==", AfterDate(LineHead))
    /\ ~HasLeadingSymbol(AfterDate(LineHead))
    /\ TextAt(NumStart(AfterDate(LineHead)),
              NumStop(AfterDate(LineHead)) - NumStart(AfterDate(LineHead))) \notin {"", "."}

\* The step rejects the amount that starts at position a.
AmountRejected(a) ==
    \E d \in NewErrors : d.code = "E002" /\ PosOf(d.span.start) = a

C33_Step ==
    AtTrailingAmountLine =>
        IF \/ charAt(TrailingPos(AfterDate(LineHead))) \in CurrencySymbols
           \/ isIdentChar(charAt(TrailingPos(AfterDate(LineHead))))
        THEN ~AmountRejected(AfterDate(LineHead))
        ELSE AmountRejected(AfterDate(LineHead)) /\ NewEntries = {}

C33_TrailingCommodity == [][C33_Step]_vars

(***************************************************************************)
(* C34: a LEDGER line that starts with '@' and has no account name emits   *)
(* E001 and leaves currentAccount as it was (it is not cleared), so the    *)
(* entry lines after it are stamped with the account of before; a step     *)
(* changes currentAccount only on an @Account header with a name, which    *)
(* sets it to that account, or on a valid section marker, which clears it. *)
(***************************************************************************)
\* The dispatcher is about to hand parseLedgerLine a '@' with no name after it.
AtNamelessHeader ==
    /\ AtLoopHead
    /\ section = "LEDGER"
    /\ charAt(LineHead) = "@"
    /\ HierEnd(LineHead + 1) = LineHead + 1

C34_Nameless ==
    AtNamelessHeader =>
        /\ currentAccount' = currentAccount
        /\ \E d \in NewErrors : d.code = "E001"

C34_Changes ==
    currentAccount' # currentAccount =>
        \/ /\ ValidMarkerAt(LineHead)
           /\ currentAccount' = Null
        \/ /\ section = "LEDGER"
           /\ charAt(LineHead) = "@"
           /\ HierEnd(LineHead + 1) > LineHead + 1
           /\ currentAccount' # Null
           /\ currentAccount'[1].raw = RefTextAt(LineHead)

C34_NamelessHeaderKeepsAccount == [][C34_Nameless /\ C34_Changes]_vars

\* A transaction written after a nameless '@' line and stamped with the
\* account of the header before that line.
C34_Witness ==
    /\ source = ">>> LEDGER\n@A\n@\n  2026-01-02 -5 $ &Food #t ; c"
    /\ Len(data.ledger) = 1
    /\ data.ledger[1].account.raw = "@A"
    /\ data.ledger[1].span.start.line = 4
    /\ Len(errors) = 1
    /\ errors[1].code = "E001"
    /\ errors[1].span.start.line = 3

(***************************************************************************)
(* C35: section isolation.  data.meta changes only while the section is    *)
(* META; data.budget and currentPeriod change only while it is BUDGET, and *)
(* data.ledger and currentAccount only while it is LEDGER, but for the     *)
(* reset of currentPeriod and currentAccount by a section marker; and a    *)
(* line of one section's grammar met under another section changes no data *)
(* and emits an error.                                                     *)
(***************************************************************************)
\* The line at h is written in the grammar of the META, BUDGET, LEDGER section.
MetaGrammarAt(h) == \E keyword \in {"commodity:", "alias:", "untracked:"} : startsWith(keyword, h)

BudgetGrammarAt(h) == IsPeriodToken(h) \/ charAt(h) = "&"

LedgerGrammarAt(h) == charAt(h) \in {"@", "?"} \/ DateShapeAt(h)

\* The dispatcher is about to take a line written for another section than
\* the one in force.
AtForeignLine ==
    /\ AtLoopHead
    /\ \/ section = "META" /\ (BudgetGrammarAt(LineHead) \/ LedgerGrammarAt(LineHead))
       \/ section = "BUDGET" /\ (MetaGrammarAt(LineHead) \/ LedgerGrammarAt(LineHead))
       \/ section = "LEDGER" /\ (MetaGrammarAt(LineHead) \/ BudgetGrammarAt(LineHead))

C35_MarkerReset == ValidMarkerAt(LineHead) /\ currentPeriod' = Null /\ currentAccount' = Null

C35_Frame ==
    /\ data'.meta # data.meta => section = "META"
    /\ data'.budget # data.budget => section = "BUDGET"
    /\ data'.ledger # data.ledger => section = "LEDGER"
    /\ currentPeriod' # currentPeriod => (section = "BUDGET" \/ C35_MarkerReset)
    /\ currentAccount' # currentAccount => (section = "LEDGER" \/ C35_MarkerReset)

C35_Foreign == AtForeignLine => (data' = data /\ Len(errors') > Len(errors))

C35_SectionIsolation == [][C35_Frame /\ C35_Foreign]_vars

(***************************************************************************)
(* C36: in every state the warnings list is empty and every element of     *)
(* errors has severity 'error' and one of the codes E001, E002, E003,      *)
(* E011: the codes of the semantic validator (E005, E007, E008, E010,      *)
(* W001-W003) and the reserved E009 never come out of parse.               *)
(***************************************************************************)
ParserCodes == {"E001", "E002", "E003", "E011"}

C36_OnlyParserDiagnostics ==
    /\ warnings = <<>>
    /\ \A i \in 1..Len(errors) :
        /\ errors[i].severity = "error"
        /\ errors[i].code \in ParserCodes

\* parse has returned a malformed amount and a malformed date.
C36_Witness ==
    /\ pc = "done"
    /\ warnings = <<>>
    /\ {errors[i].code : i \in 1..Len(errors)} = {"E002", "E003"}

(***************************************************************************)
(* C37: the span of every BudgetEntry, Transaction and Assertion lies on   *)
(* one source line, starts at the first non-whitespace character of that   *)
(* line (the '?' of an unverified entry), ends at or after the end of the  *)
(* last token the entry holds and within the line, and contains the spans  *)
(* of the entry's amount, category and target references, swap amount and  *)
(* tags.                                                                   *)
(***************************************************************************)
\* The spans of the parts of an entry that are written on the entry's line
LedgerEntryParts(e) ==
    {e.amount.span}
    \cup (IF e.kind = "transaction"
          THEN TargetSpans(e.target) \cup {e.tags[i].span : i \in 1..Len(e.tags)}
          ELSE {})

BudgetEntryParts(e) == {e.category.span, e.amount.span}

C37_Contains(outer, inner) ==
    /\ inner.start.line = outer.start.line
    /\ inner.end.line = outer.start.line
    /\ outer.start.col <= inner.start.col
    /\ inner.end.col <= outer.end.col

C37_OnItsLine(s) ==
    /\ s.start.line = s.end.line
    /\ PosOf(s.start) = HwsEnd(LineStart(s.start.line))
    /\ PosOf(s.start) < PosOf(s.end)
    /\ PosOf(s.end) <= LineEnd(PosOf(s.start))

C37_EntrySpans ==
    /\ \A i \in 1..Len(data.ledger) :
        /\ C37_OnItsLine(data.ledger[i].span)
        /\ data.ledger[i].unverified <=> charAt(PosOf(data.ledger[i].span.start)) = "?"
        /\ \A s \in LedgerEntryParts(data.ledger[i]) : C37_Contains(data.ledger[i].span, s)
    /\ \A i \in 1..Len(data.budget) :
        /\ C37_OnItsLine(data.budget[i].span)
        /\ \A s \in BudgetEntryParts(data.budget[i]) : C37_Contains(data.budget[i].span, s)

\* An unverified assertion indented by a tab and a transaction with a tag
\* and a comment indented by two spaces.
C37_Witness ==
    /\ source = ">>> LEDGER\n@A\n\t? 2026-01-06 == 7 RM\n  2026-01-02 -5 $ &Food #t ; c\n"
    /\ pc = "done"
    /\ Len(data.ledger) = 2
    /\ data.ledger[1].span = [start |-> [line |-> 3, col |-> 2], end |-> [line |-> 3, col |-> 22]]
    /\ data.ledger[2].span = [start |-> [line |-> 4, col |-> 3], end |-> [line |-> 4, col |-> 31]]
    /\ Len(data.ledger[2].tags) = 1

(***************************************************************************)
(* C38: cursor consistency in every reachable state: 0 <= pos <= length of *)
(* the source, line is 1 plus the number of newlines in source[0..pos),    *)
(* and col is 1 plus the number of characters between the last newline     *)
(* before pos (or the start of the input) and pos.                         *)
(***************************************************************************)
\* The start of the line that holds position i
LineStartOf(i) == Max({j \in 0..i : IsLineStart(j)})

C38_PosInSource == 0 <= pos /\ pos <= Len(source)

C38_LineCol ==
    /\ line = 1 + NewlinesBefore(pos)
    /\ col = 1 + (pos - LineStartOf(pos))

C38_CursorConsistent == C38_PosInSource /\ C38_LineCol

====
